---- MODULE Spec2Model ----
(***************************************************************************)
(* Link Finder: the crawl engine (WebsiteCrawler) of crawler.js.           *)
(*                                                                         *)
(* A JavaScript string is modelled as the sequence of its lexical tokens   *)
(* ("https", ":", "/", "ex.com", "a", "#", " ", ...).  Every string        *)
(* operation the crawler uses (startsWith, endsWith('/'), slice(0,-1),     *)
(* trim, split(':'), split('/'), replace(/\/$/,'')) falls on token         *)
(* boundaries for the inputs enumerated below, so it is computed on the    *)
(* token sequence exactly as the code computes it on the characters.       *)
(***************************************************************************)
EXTENDS Integers, Sequences, FiniteSets, TLC

(***************************************************************************)
(* Bounds of the model.                                                    *)
(***************************************************************************)
\* maxDepth ranges over 0..MaxDepthBound (crawlWebsite passes 2).
MaxDepthBound == 2
\* At most MaxFaults calls of the external collaborators fail in one crawl.
MaxFaults == 2
\* The relative references given to normalizeLink have at most MaxHrefLen
\* tokens.
MaxHrefLen == 3

(***************************************************************************)
(* F(v), F(v, w) and F(v, w, x) with the arguments evaluated first, once:  *)
(* an argument handed over as an expression is evaluated anew at each of   *)
(* its uses.                                                               *)
(***************************************************************************)
Of(F(_), v) == CHOOSE r \in {F(a) : a \in {v}} : TRUE

Of2(F(_, _), v, w) == CHOOSE r \in {F(a, b) : a \in {v}, b \in {w}} : TRUE

Of3(F(_, _, _), v, w, x) ==
  CHOOSE r \in {F(a, b, c) : a \in {v}, b \in {w}, c \in {x}} : TRUE

(***************************************************************************)
(* Strings.                                                                *)
(***************************************************************************)
\* The value of a JavaScript null; no string is equal to it.
NULL == <<"<null>">>

StartsWith(s, p) == Len(s) >= Len(p) /\ SubSeq(s, 1, Len(p)) = p

EndsWith(s, p) == Len(s) >= Len(p) /\ SubSeq(s, Len(s) - Len(p) + 1, Len(s)) = p

\* String.prototype.trim
Trim(s) ==
  LET ink == {i \in DOMAIN s : s[i] # " "}
  IN  IF ink = {} THEN <<>>
      ELSE SubSeq(s, CHOOSE i \in ink : \A j \in ink : i <= j,
                     CHOOSE i \in ink : \A j \in ink : i >= j)

\* The index of the first token t of s, 0 when there is none.
IndexOf(s, t) ==
  LET at == {i \in DOMAIN s : s[i] = t}
  IN  IF at = {} THEN 0 ELSE CHOOSE i \in at : \A j \in at : i <= j

\* String.prototype.split(t): the pieces of s between the separators t.
RECURSIVE Split(_, _)
Split(s, t) ==
  LET i == IndexOf(s, t)
  IN  IF i = 0 THEN <<s>>
      ELSE <<SubSeq(s, 1, i - 1)>> \o Of2(Split, SubSeq(s, i + 1, Len(s)), t)

\* Array.prototype.join(t)
RECURSIVE Join(_, _)
Join(parts, t) ==
  IF parts = <<>> THEN <<>>
  ELSE IF Len(parts) = 1 THEN parts[1]
  ELSE parts[1] \o <<t>> \o Of2(Join, Tail(parts), t)

(***************************************************************************)
(* The URL class of Node (WHATWG URL), on the token grammar                *)
(*   scheme ":" "/" "/" host ( "/" segment )* [ "#" fragment ]             *)
(* and the relative references of it.  A parsed URL is a record; segs is   *)
(* the path as its list of segments, an empty last segment standing for a  *)
(* trailing slash.  Ports, user info, queries and dot segments are not in  *)
(* the alphabet.                                                           *)
(***************************************************************************)
SpecialSchemes == {"http", "https", "ftp"}

OpaqueSchemes == {"javascript", "mailto", "tel", "data"}

\* Host tokens the host parser rejects (a forbidden host code point).
InvalidHosts == {"bad^host"}

Delims == {":", "/", "#", " "}

\* The record a failed parse yields (the constructor throws TypeError).
Invalid == [ok |-> FALSE, scheme |-> "", host |-> "", segs |-> <<>>, frag |-> <<>>]

HasScheme(s) ==
  Len(s) >= 2 /\ s[1] \in SpecialSchemes \cup OpaqueSchemes /\ s[2] = ":"

\* The tokens of s from the first one that is not "/".
RECURSIVE SkipSlashes(_)
SkipSlashes(s) ==
  IF s # <<>> /\ s[1] = "/" THEN Of(SkipSlashes, Tail(s)) ELSE s

\* The URL record of a path text ("" or "/...") and a fragment.
PathFragRecord(scheme, host, path, frag) ==
  IF path # <<>> /\ path[1] # "/" THEN Invalid
  ELSE [ok |-> TRUE, scheme |-> scheme, host |-> host,
        segs |-> IF path = <<>> THEN << <<>> >> ELSE Of2(Split, Tail(path), "/"),
        frag |-> frag]

\* Path and fragment of the text that follows the host, cut at the first
\* "#" (at h, 0 when there is none).
CutAtHash(scheme, host, rest, h) ==
  IF h = 0 THEN PathFragRecord(scheme, host, rest, <<>>)
  ELSE PathFragRecord(scheme, host, SubSeq(rest, 1, h - 1),
                      SubSeq(rest, h + 1, Len(rest)))

ParsePathFrag(scheme, host, rest) ==
  Of(LAMBDA h : CutAtHash(scheme, host, rest, h), IndexOf(rest, "#"))

\* The host and what follows it, a being the text after "scheme:" and the
\* slashes.
ParseAuthority(scheme, a) ==
  IF a = <<>> \/ a[1] \in Delims \/ a[1] \in InvalidHosts THEN Invalid
  ELSE Of3(ParsePathFrag, scheme, a[1], Tail(a))

\* The URL of a text without leading and trailing white space.
ParseTrimmed(s) ==
  IF ~HasScheme(s) THEN Invalid
  ELSE IF s[1] \in OpaqueSchemes
    THEN [ok |-> TRUE, scheme |-> s[1], host |-> "",
          segs |-> <<SubSeq(s, 3, Len(s))>>, frag |-> <<>>]
  ELSE Of2(ParseAuthority, s[1], SkipSlashes(SubSeq(s, 3, Len(s))))

\* new URL(str): an absolute URL, or a TypeError (Invalid).
ParseURL(str) == Of(ParseTrimmed, Trim(str))

\* url.pathname of a special URL: "/" before each segment.
RECURSIVE Pathname(_)
Pathname(segs) ==
  IF segs = <<>> THEN <<>> ELSE <<"/">> \o segs[1] \o Of(Pathname, Tail(segs))

\* url.href
Href(u) ==
  IF u.scheme \in OpaqueSchemes THEN <<u.scheme, ":">> \o u.segs[1]
  ELSE <<u.scheme, ":", "/", "/", u.host>> \o Pathname(u.segs)
         \o (IF u.frag = <<>> THEN <<>> ELSE <<"#">> \o u.frag)

\* url.origin (of a special URL)
Origin(u) == <<u.scheme, ":", "/", "/", u.host>>

\* url.protocol
Protocol(u) == u.scheme

\* url.hostname
Hostname(u) == u.host

\* A relative path r (parsed as if absolute) appended to the directory of
\* base.
MergePath(r, base) ==
  IF ~r.ok THEN Invalid
  ELSE [r EXCEPT !.segs = SubSeq(base.segs, 1, Len(base.segs) - 1) \o r.segs]

\* The reference s, without leading and trailing white space, against base.
ResolveTrimmed(s, base) ==
  IF ~base.ok THEN Invalid
  ELSE IF HasScheme(s) THEN ParseTrimmed(s)
  ELSE IF s = <<>> THEN [base EXCEPT !.frag = <<>>]
  ELSE IF StartsWith(s, <<"/", "/">>) THEN Of(ParseTrimmed, <<base.scheme, ":">> \o s)
  ELSE IF s[1] = "/" THEN ParsePathFrag(base.scheme, base.host, s)
  ELSE IF s[1] = "#" THEN [base EXCEPT !.frag = Tail(s)]
  ELSE Of2(MergePath, ParsePathFrag(base.scheme, base.host, <<"/">> \o s), base)

\* new URL(href, base), base a parsed special URL.
ResolveURL(href, base) == Of2(ResolveTrimmed, Trim(href), base)

(***************************************************************************)
(* WebsiteCrawler: the pure helpers.                                       *)
(***************************************************************************)
\* href.replace(/\/$/, '') || href
DropLastSlash(href) ==
  IF EndsWith(href, <<"/">>) /\ Len(href) > 1
    THEN SubSeq(href, 1, Len(href) - 1) ELSE href

\* The try block of normalizeUrl: NULL stands for the thrown
\* Error('Invalid URL: ...').
HrefOrThrow(parsed) ==
  IF ~parsed.ok THEN NULL ELSE Of(DropLastSlash, Href(parsed))

\* normalizeUrl(url): the seed with the https:// bootstrap prefix, parsed,
\* its href without a trailing slash.
normalizeUrl(url) ==
  IF ~StartsWith(url, <<"http", ":", "/", "/">>)
     /\ ~StartsWith(url, <<"https", ":", "/", "/">>)
    THEN Of(HrefOrThrow, ParseURL(<<"https", ":", "/", "/">> \o url))
    ELSE Of(HrefOrThrow, ParseURL(url))

\* getDomain(url)
getDomain(url) == Hostname(ParseURL(url))

\* url.protocol === 'http:' || url.protocol === 'https:'
IsHttp(url) == url.ok /\ (Protocol(url) = "http" \/ Protocol(url) = "https")

\* isValidUrl(urlString)
isValidUrl(urlString) == Of(IsHttp, ParseURL(urlString))

\* parsed.hostname === this.baseDomain
HostIs(parsed, baseDomain) == parsed.ok /\ Hostname(parsed) = baseDomain

\* A scope test that accepts every host.
isSameDomainAnyHost(url, baseDomain) == ParseURL(url).ok

\* isSameDomain(url), against this.baseDomain
isSameDomain(url, baseDomain) == Of2(HostIs, ParseURL(url), baseDomain)

\* A normalizeLink that skips blank hrefs only, without the tests of lines
\* 65-70.
SkippedHrefBlankOnly(href) == href = <<>> \/ Trim(href) = <<>>

\* The link types normalizeLink skips (href untrimmed in the startsWith tests).
SkippedHref(href) ==
  \/ href = <<>>
  \/ Trim(href) = <<>>
  \/ StartsWith(href, <<"javascript", ":">>)
  \/ StartsWith(href, <<"mailto", ":">>)
  \/ StartsWith(href, <<"tel", ":">>)
  \/ StartsWith(href, <<"data", ":">>)
  \/ StartsWith(href, <<"#">>)
  \/ Trim(href) = <<"#">>

\* The trailing slash of normalized removed "for consistency (except for
\* root)".
SliceSlash(normalized, origin) ==
  IF EndsWith(normalized, <<"/">>) /\ normalized # origin \o <<"/">>
    THEN SubSeq(normalized, 1, Len(normalized) - 1)
    ELSE normalized

\* Lines 93-102: the fragment removed, then the trailing slash; NULL when
\* the resolution threw.
StripTrailingSlash(resolvedUrl) ==
  IF ~resolvedUrl.ok THEN NULL
  ELSE Of2(SliceSlash, Href([resolvedUrl EXCEPT !.frag = <<>>]), Origin(resolvedUrl))

\* The manual resolution of lines 83-90, tried when the constructor threw.
ManualResolve(href, base) ==
  IF StartsWith(href, <<"/", "/">>) THEN ParseURL(<<"https", ":">> \o href)
  ELSE IF StartsWith(href, <<"/">>) THEN Of2(ResolveURL, href, ParseURL(Origin(base)))
  ELSE ResolveURL(href, base)

\* Lines 78-91: new URL(href, base), and the manual resolution when it threw.
ResolveOrRetry(href, base, first) ==
  IF first.ok THEN first ELSE ManualResolve(href, base)

\* Lines 75-102 for the parsed base.
NormalizeAgainst(href, base) ==
  IF ~base.ok THEN NULL
  ELSE Of(StripTrailingSlash, Of3(ResolveOrRetry, href, base, ResolveURL(href, base)))

\* normalizeLink(href, baseUrl): NULL when the link is skipped or anything throws.
normalizeLink(href, baseUrl) ==
  IF href = NULL \/ SkippedHref(href) THEN NULL
  ELSE Of2(NormalizeAgainst, href, ParseURL(baseUrl))

(***************************************************************************)
(* The link extractor that page.evaluate runs in the browser.              *)
(***************************************************************************)
\* The filter of addLink on the trimmed href.
SkippedByAddLink(href) ==
  \/ href = <<>>
  \/ StartsWith(href, <<"javascript", ":">>)
  \/ StartsWith(href, <<"mailto", ":">>)
  \/ StartsWith(href, <<"tel", ":">>)
  \/ StartsWith(href, <<"data", ":">>)
  \/ href = <<"#">>

\* addLink(href) of the extraction script, base = new URL(currentPageUrl):
\* the absolute link it adds to the page's Set, NULL when it adds none.
addLink(rawHref, base) ==
  IF rawHref = <<>> \/ SkippedByAddLink(Trim(rawHref)) THEN NULL
  ELSE Of(StripTrailingSlash, Of2(ResolveURL, rawHref, ParseURL(base)))

\* links.add(l): l appended unless it is NULL or already there.
AddToLinks(acc, l) ==
  IF l = NULL \/ \E i \in DOMAIN acc : acc[i] = l THEN acc ELSE Append(acc, l)

\* Array.from(links): the links addLink added for the candidate attribute
\* values hrefs, in insertion order, each once (links is a Set).
RECURSIVE ExtractLinks(_, _, _)
ExtractLinks(hrefs, base, acc) ==
  IF hrefs = <<>> THEN acc
  ELSE Of3(ExtractLinks, Tail(hrefs), base,
           Of2(AddToLinks, acc, addLink(hrefs[1], base)))

(***************************************************************************)
(* robots.txt: the robots-parser policy and the Sitemap: directives.       *)
(***************************************************************************)
\* this.robotsTxt = null
NoRobots == [present |-> FALSE, url |-> <<>>, disallow |-> {}]

\* robotsParser(robotsUrl, data): the Disallow patterns of the text, all of
\* them read in the group of User-agent: * (the texts of the model have no
\* other group, so the group of LinkFinderBot is that one).
robotsParser(robotsUrl, data) ==
  [present  |-> TRUE,
   url      |-> robotsUrl,
   disallow |-> {Trim(SubSeq(data[i], 3, Len(data[i]))) :
                   i \in {j \in DOMAIN data :
                            /\ StartsWith(data[j], <<"Disallow", ":">>)
                            /\ Trim(SubSeq(data[j], 3, Len(data[j]))) # <<>>}}]

\* Whether no Disallow pattern of the policy is a prefix of the path of u,
\* u being of the protocol and host of r.
PathAllowed(policy, u, r) ==
  /\ u.ok
  /\ u.scheme = r.scheme /\ u.host = r.host
  /\ \A d \in policy.disallow :
       ~StartsWith(SubSeq(Href(u), Len(Origin(u)) + 1, Len(Href(u))), d)

\* robotsTxt.isAllowed(url, 'LinkFinderBot'): undefined (falsy) for a URL
\* that is not of the protocol and host of the robots.txt, else whether no
\* Disallow pattern is a prefix of the path.
isAllowed(policy, url) ==
  Of3(PathAllowed, policy, ParseURL(url), ParseURL(policy.url))

\* The spellings /Sitemap:/i matches.
SitemapWords == {"Sitemap", "sitemap", "SITEMAP"}

\* The places of a line where /Sitemap:\s*(.+)/i can match: "Sitemap:" with
\* at least one character after it.
SitemapAtOf(line) ==
  {j \in DOMAIN line :
     line[j] \in SitemapWords /\ j + 2 <= Len(line) /\ line[j + 1] = ":"}

\* data.match(/Sitemap:\s*(.+)/gi): per line, the text from the first
\* such place to the line's end.
RECURSIVE SitemapMatches(_)
SitemapMatches(data) ==
  IF data = <<>> THEN <<>>
  ELSE (IF SitemapAtOf(data[1]) = {} THEN <<>>
        ELSE <<SubSeq(data[1],
                      CHOOSE j \in SitemapAtOf(data[1]) :
                        \A k \in SitemapAtOf(data[1]) : j <= k,
                      Len(data[1]))>>)
       \o Of(SitemapMatches, Tail(data))

\* match.split(':')[1].trim()
SitemapUrlOf(match) == Trim(Split(match, ":")[2])

\* Line 119-121 for one directive: the sitemap pushed, if any.
KeepSitemap(sitemapUrl, baseDomain) ==
  IF isValidUrl(sitemapUrl) /\ isSameDomain(sitemapUrl, baseDomain)
    THEN <<sitemapUrl>> ELSE <<>>

\* The sitemapLinks fetchRobotsTxt pushes for the matches, in order.
RECURSIVE KeepSitemaps(_, _)
KeepSitemaps(matches, baseDomain) ==
  IF matches = <<>> THEN <<>>
  ELSE Of2(KeepSitemap, SitemapUrlOf(matches[1]), baseDomain)
         \o Of2(KeepSitemaps, Tail(matches), baseDomain)

\* parts.slice(0, 3).join('/') + '/robots.txt'
RobotsUrlOf(parts) ==
  Join(SubSeq(parts, 1, IF Len(parts) < 3 THEN Len(parts) ELSE 3), "/")
    \o <<"/", "robots.txt">>

\* robotsUrl = baseUrl.split('/').slice(0, 3).join('/') + '/robots.txt'
RobotsUrl(baseUrl) == Of(RobotsUrlOf, Split(baseUrl, "/"))

(***************************************************************************)
(* Sitemaps.                                                               *)
(***************************************************************************)
LocOpen == {"<loc>", "<LOC>"}

LocClose == {"</loc>", "</LOC>"}

\* The least element of a non-empty set of numbers.
Least(set) == CHOOSE a \in set : \A b \in set : a <= b

\* The closing tags of line after index i.
ClosesAfter(line, i) == {j \in DOMAIN line : j > i /\ line[j] \in LocClose}

\* content.match(/<loc>(.*?)<\/loc>/gi): per line, each shortest stretch
\* from an opening tag to the next closing tag.
RECURSIVE LocMatchesOfLine(_)
RECURSIVE LocMatchesFrom(_, _)
LocMatchesFrom(line, i) ==
  IF ClosesAfter(line, i) = {} THEN <<>>
  ELSE <<SubSeq(line, i, Least(ClosesAfter(line, i)))>>
         \o Of(LocMatchesOfLine,
               SubSeq(line, Least(ClosesAfter(line, i)) + 1, Len(line)))

LocMatchesOfLine(line) ==
  IF {i \in DOMAIN line : line[i] \in LocOpen} = {} THEN <<>>
  ELSE Of2(LocMatchesFrom, line, Least({i \in DOMAIN line : line[i] \in LocOpen}))

RECURSIVE LocMatches(_)
LocMatches(content) ==
  IF content = <<>> THEN <<>>
  ELSE LocMatchesOfLine(content[1]) \o Of(LocMatches, Tail(content))

\* match.replace(/<\/?loc>/g, '').trim(): the tags in lower case removed.
RECURSIVE LocText(_)
LocText(match) ==
  IF match = <<>> THEN <<>>
  ELSE (IF match[1] \in {"<loc>", "</loc>"} THEN <<>> ELSE <<match[1]>>)
       \o Of(LocText, Tail(match))

\* Lines 137-142: of the matches, the URLs parseSitemap adds to allLinks.
KeptLocs(urlMatches, baseDomain) ==
  {url \in {Trim(LocText(urlMatches[k])) : k \in DOMAIN urlMatches} :
     isValidUrl(url) /\ isSameDomain(url, baseDomain)}

\* The URLs parseSitemap adds to allLinks for a fetched body.
SitemapUrls(content, baseDomain) ==
  Of2(KeptLocs, LocMatches(content), baseDomain)

(***************************************************************************)
(* Array.prototype.sort(): ascending order of UTF-16 code units.           *)
(***************************************************************************)
\* The tokens of the model's texts in ascending code-unit order.  Of the
\* tokens that can stand at the same place of a URL none is a prefix of
\* another, but "http" of "https", which ":" follows ("http:" < "https").
Alphabet ==
  <<" ", "#", "*", "/", ":", "</LOC>", "</loc>", "<LOC>", "<loc>", "Disallow",
    "SITEMAP", "Sitemap", "User-agent", "a", "a@b.com", "b", "bad^host", "c",
    "d", "data", "ex.com", "frag", "ftp", "http", "https", "javascript",
    "mailto", "moved", "new", "other.org", "private", "robots.txt", "sitemap",
    "sitemap.xml", "sub.ex.com", "tel", "top", "void(0)", "x">>

Rank(t) == CHOOSE i \in DOMAIN Alphabet : Alphabet[i] = t

\* a < b as JavaScript compares strings.
RECURSIVE StrLess(_, _)
StrLess(a, b) ==
  IF b = <<>> THEN FALSE
  ELSE IF a = <<>> THEN TRUE
  ELSE IF a[1] = b[1] THEN Of2(StrLess, Tail(a), Tail(b))
  ELSE Rank(a[1]) < Rank(b[1])

\* A crawl() that returns the links in descending order.
RECURSIVE SortLinksSkipped(_)
SortLinksSkipped(set) ==
  IF set = {} THEN <<>>
  ELSE LET m == CHOOSE x \in set : \A y \in set \ {x} : StrLess(y, x)
       IN  <<m>> \o Of(SortLinksSkipped, set \ {m})

\* Array.from(set).sort()
RECURSIVE SortLinks(_)
SortLinks(set) ==
  IF set = {} THEN <<>>
  ELSE LET m == CHOOSE x \in set : \A y \in set \ {x} : StrLess(x, y)
       IN  <<m>> \o Of(SortLinks, set \ {m})

(***************************************************************************)
(* The web the crawler runs against: sites on the host ex.com.  A page is  *)
(* what the server answers for a path: the Location it redirects to (NULL  *)
(* when it does not) and the candidate attribute values of the document    *)
(* finally loaded, in the order the extraction script meets them.          *)
(***************************************************************************)
Ex == <<"https", ":", "/", "/", "ex.com">>

Page(path, location, hrefs) ==
  [path |-> path, location |-> location, hrefs |-> hrefs]

\* A diamond with a cycle: b is linked from the root and from a.
SiteDiamond ==
  [pages |->
     {Page(<<"/">>, NULL, << <<"/", "a">>, <<"/", "b">>, <<"#", "top">>,
                             <<"mailto", ":", "a@b.com">> >>),
      Page(<<"/", "a">>, NULL, << <<"/", "b">>, <<"/">>, <<"a", "#", "frag">> >>),
      Page(<<"/", "b">>, NULL, << <<"c">>, Ex \o <<"/", "a", "/">> >>),
      Page(<<"/", "c">>, NULL, << <<"/", "d">> >>),
      Page(<<"/", "d">>, NULL, << <<"/", "x">> >>)},
   hasRobots |-> TRUE,
   robots |-> << <<"User-agent", ":", " ", "*">>,
                 <<"Disallow", ":", " ", "/", "private">>,
                 <<"Sitemap", ":", " ">> \o Ex \o <<"/", "sitemap.xml">> >>,
   sitemaps |->
     {[url |-> Ex \o <<"/", "sitemap.xml">>,
       content |-> << <<"<loc>">> \o Ex \o <<"/", "a", "/", "</loc>">>,
                      <<"<loc>", " ">> \o Ex \o <<"/", "private", "#", "frag", "</loc>">>,
                      <<"<loc>", "https", ":", "/", "/", "sub.ex.com", "/", "x", "</loc>">> >>]}]

\* Links that leave the scope, and a page robots.txt disallows.
SiteScope ==
  [pages |->
     {Page(<<"/">>, NULL, << <<"/", "/", "sub.ex.com", "/", "x">>,
                             <<"https", ":", "/", "/", "other.org", "/">>,
                             <<"ftp", ":", "/", "/", "ex.com", "/", "x">>,
                             <<"/", "private">>,
                             <<"http", ":", "/", "/", "ex.com", "/", "a">>,
                             <<"javascript", ":", "void(0)">>,
                             <<" ">>,
                             <<"https", ":", "/", "/", "bad^host", "/">>,
                             <<"/", "b">> >>),
      Page(<<"/", "private">>, NULL, << <<"/", "c">> >>),
      Page(<<"/", "a">>, NULL, << <<"/", "private">>, <<"/", "b">> >>),
      Page(<<"/", "b">>, NULL, << <<"/", "private", "/">>, <<"/", "b">> >>)},
   hasRobots |-> TRUE,
   robots |-> << <<"User-agent", ":", " ", "*">>,
                 <<"Disallow", ":", " ", "/", "private">>,
                 <<"sitemap", ":", " ", "https", ":", "/", "/", "other.org", "/", "sitemap.xml">>,
                 <<"SITEMAP", ":", "/", "sitemap.xml">> >>,
   sitemaps |->
     {[url |-> Ex \o <<"/", "sitemap.xml">>,
       content |-> << <<"<LOC>">> \o Ex \o <<"/", "c", "</LOC>">>,
                      <<"<loc>", "ftp", ":", "/", "/", "ex.com", "/", "x", "</loc>",
                        "<loc>">> \o Ex \o <<"/", "d", "</loc>">> >>]}]

\* Redirects: a to a/ and c to moved (in scope), b to another host; no
\* robots.txt (404).
SiteRedirect ==
  [pages |->
     {Page(<<"/">>, NULL, << <<"/", "a">>, <<"/", "b">>, <<"/", "c">> >>),
      Page(<<"/", "a">>, <<"/", "a", "/">>, << <<"/", "d">> >>),
      Page(<<"/", "b">>, <<"https", ":", "/", "/", "other.org", "/", "b">>,
           << <<"/", "x">>, Ex \o <<"/", "d", "#", "frag">> >>),
      Page(<<"/", "c">>, <<"/", "moved">>, << <<"/", "new">>, <<"/", "c">> >>)},
   hasRobots |-> FALSE,
   robots |-> <<>>,
   sitemaps |-> {}]

Sites == {SiteDiamond, SiteScope, SiteRedirect}

\* The seeds: a bare host, a deep http page with a trailing slash, a page
\* under the path that the sites' robots.txt disallows, and a text that is
\* no URL even with the https:// prefix.
Seeds ==
  {<<"ex.com">>,
   <<"http", ":", "/", "/", "ex.com", "/", "a", "/">>,
   <<"ex.com", "/", "private">>,
   <<"https", ":", "/", "/">>}

\* The path (and fragment) of a parsed URL.
PathOf(u) == SubSeq(Href(u), Len(Origin(u)) + 1, Len(Href(u)))

\* The path (and fragment) of an absolute URL string.
PathOfUrl(url) == Of(PathOf, ParseURL(url))

\* The page of s at a path: a page of s, else a 404 document without links.
PageAtPath(s, path) ==
  IF \E p \in s.pages : p.path = path
    THEN CHOOSE p \in s.pages : p.path = path
    ELSE Page(path, NULL, <<>>)

\* The page the server of s answers for url.
PageAt(s, url) == Of2(PageAtPath, s, PathOfUrl(url))

\* The URL finally loaded for url, the server answering with page.
FinalUrl(url, page) ==
  IF page.location = NULL THEN url
  ELSE Href(ResolveURL(page.location, ParseURL(url)))

\* page.url() after page.goto(url): the URL finally loaded.
CurrentPageUrl(s, url) == Of2(FinalUrl, url, PageAt(s, url))

(***************************************************************************)
(* The state of one crawlWebsite(url) call.                                *)
(***************************************************************************)
VARIABLES
  seed,         \* the url argument of crawlWebsite / new WebsiteCrawler
  site,         \* the web site served at ex.com
  pc,           \* where crawlWebsite stands
  baseUrl,      \* this.baseUrl
  baseDomain,   \* this.baseDomain
  maxDepth,     \* this.maxDepth
  visitedUrls,  \* this.visitedUrls
  allLinks,     \* this.allLinks
  robotsTxt,    \* this.robotsTxt
  sitemapLinks, \* this.sitemapLinks
  browser,      \* this.browser: 0 is null, k the handle of the k-th launch
  sitemapIdx,   \* the position of crawl()'s loop over this.sitemapLinks
  stack,        \* the crawlPage invocations in progress, innermost last
  result,       \* the array crawl() returned
  log,          \* the calls made so far, with their outcome
  faults,       \* the collaborator calls that failed so far
  call,         \* a call of normalizeLink made on the crawler by a client
  req,          \* the url of the body of a POST /api/crawl request
  res,          \* the response the handler of the request sent
  tasks,        \* the invocations of crawlPage a client started side by side
  earlier       \* what an earlier crawlWebsite(url) of the same site found

vars ==
  <<seed, site, pc, baseUrl, baseDomain, maxDepth, visitedUrls, allLinks,
    robotsTxt, sitemapLinks, browser, sitemapIdx, stack, result, log, faults,
    call, req, res, tasks, earlier>>

Event(op, url, ok) == [op |-> op, url |-> url, ok |-> ok]

\* The events of the log with operation op.
Events(op) == {i \in DOMAIN log : log[i].op = op}

\* Whether one more collaborator call may fail.
MayFail == faults < MaxFaults

\* No client calls normalizeLink during a crawlWebsite(url).
NoCall == [href |-> NULL, base |-> NULL, at |-> "none", out |-> NULL,
           variant |-> NULL, again |-> NULL]

\* No crawl was made before.
NoEarlier == [made |-> FALSE, allLinks |-> {}, visitedUrls |-> {}]

\* crawlWebsite called directly: there is no HTTP request, and no response.
NoRequest == [kind |-> "none", text |-> NULL]

NoResponse ==
  [status |-> 0, success |-> FALSE, error |-> "", message |-> NULL,
   url |-> NULL, totalLinks |-> 0, links |-> <<>>]

\* crawlWebsite(url) is entered; the constructor's assignments of lines
\* 10-15 are the values the fields hold from the start.
Init ==
  /\ seed \in Seeds
  /\ site \in Sites
  /\ maxDepth \in 0..MaxDepthBound
  /\ pc = "start"
  /\ baseUrl = NULL
  /\ baseDomain = ""
  /\ visitedUrls = {}
  /\ allLinks = {}
  /\ robotsTxt = NoRobots
  /\ sitemapLinks = <<>>
  /\ browser = 0
  /\ sitemapIdx = 1
  /\ stack = <<>>
  /\ result = <<>>
  /\ log = <<>>
  /\ faults = 0
  /\ call = NoCall
  /\ req = NoRequest
  /\ res = NoResponse
  /\ tasks = <<>>
  /\ earlier = NoEarlier

(***************************************************************************)
(* crawlPage: the synchronous head of an invocation.                       *)
(***************************************************************************)
\* if (depth > this.maxDepth) return;
TooDeep(depth) == depth > maxDepth

\* A crawlPage without the test of line 159.
AlreadyVisitedSkipped(normalizedUrl) == FALSE

\* if (this.visitedUrls.has(normalizedUrl)) return;
AlreadyVisited(normalizedUrl) == normalizedUrl \in visitedUrls

\* A crawlPage without the test of line 164.
RobotsRefusesSkipped(normalizedUrl) == FALSE

\* if (this.robotsTxt && !this.robotsTxt.isAllowed(normalizedUrl, 'LinkFinderBot')) return;
RobotsRefuses(normalizedUrl) ==
  robotsTxt.present /\ ~isAllowed(robotsTxt, normalizedUrl)

\* Lines 155-166 for the normalized URL: the URL the invocation marks
\* visited and goes on to render, NULL when it returns at once.
VisitChecks(normalizedUrl) ==
  IF \/ normalizedUrl = NULL
     \/ ~isValidUrl(normalizedUrl)
     \/ ~isSameDomain(normalizedUrl, baseDomain)
    THEN NULL
  ELSE IF AlreadyVisited(normalizedUrl) THEN NULL
  ELSE IF RobotsRefuses(normalizedUrl) THEN NULL
  ELSE normalizedUrl

\* Lines 150-166 of crawlPage(url, depth).
CrawlPageTarget(url, depth) ==
  IF TooDeep(depth) THEN NULL
  ELSE Of(VisitChecks, normalizeLink(url, baseUrl))

\* A crawlPage that launches a browser for every page.
NeedsLaunchAlways == TRUE

\* if (!this.browser)
NeedsLaunch == browser = 0

\* The invocation that has passed the checks, at its first await: the
\* launch of the browser when there is none, else browser.newPage().
Frame(normalizedUrl, depth) ==
  [url |-> normalizedUrl, depth |-> depth,
   at |-> IF NeedsLaunch THEN "launch" ELSE "newPage",
   base |-> <<>>, links |-> <<>>, i |-> 1]

Top == stack[Len(stack)]

SetTop(f) == [stack EXCEPT ![Len(stack)] = f]

Pop == SubSeq(stack, 1, Len(stack) - 1)

\* Lines 407-414 once crawlPage(this.baseUrl, 0) has returned: the browser,
\* if one is held, is being closed; else the sorted links are returned.
AfterTraversal(links) ==
  IF browser # 0
    THEN pc' = "closing" /\ result' = result
    ELSE pc' = "done" /\ result' = SortLinks(links)

\* The innermost invocation returns with the stack st left: its caller goes
\* on, and crawl() does after the outermost one.
Return(st) ==
  /\ stack' = st
  /\ IF st = <<>> THEN AfterTraversal(allLinks)
     ELSE pc' = pc /\ result' = result

(***************************************************************************)
(* crawlWebsite, the constructor and crawl().                              *)
(***************************************************************************)
\* Whether the constructor throws for the url argument: normalizeUrl
\* (line 8) or getDomain (line 9) cannot parse it.
ConstructorThrows(url) ==
  \/ normalizeUrl(url) = NULL
  \/ ~ParseURL(normalizeUrl(url)).ok

\* new WebsiteCrawler(url, maxDepth): when the constructor throws,
\* crawlWebsite rejects with that error.
NewCrawler ==
  /\ pc = "start"
  /\ IF ConstructorThrows(seed)
       THEN /\ pc' = "error"
            /\ UNCHANGED <<baseUrl, baseDomain>>
       ELSE /\ pc' = "ready"
            /\ baseUrl' = normalizeUrl(seed)
            /\ baseDomain' = getDomain(normalizeUrl(seed))
  /\ UNCHANGED <<earlier, tasks, req, res, call, seed, site, maxDepth, visitedUrls, allLinks, robotsTxt,
                 sitemapLinks, browser, sitemapIdx, stack, result, log, faults>>

\* crawler.crawl() up to its first await, the GET of robots.txt.
StartCrawl ==
  /\ pc = "ready"
  /\ pc' = "robots"
  /\ UNCHANGED <<earlier, tasks, req, res, call, seed, site, baseUrl, baseDomain, maxDepth, visitedUrls,
                 allLinks, robotsTxt, sitemapLinks, browser, sitemapIdx, stack,
                 result, log, faults>>

\* A fetchRobotsTxt whose catch throws the failure on to crawl().
AfterRobotsFailureRethrown == "error"

\* Where crawl() stands after fetchRobotsTxt caught a failure (lines
\* 124-126: it is logged and fetchRobotsTxt returns).
AfterRobotsFailure == "sitemaps"

\* fetchRobotsTxt: the GET answers with the text, or fails (a network
\* error, a timeout, a status that is not 2xx) and the catch logs it.
FetchRobotsTxt ==
  /\ pc = "robots"
  /\ \/ /\ site.hasRobots
        /\ robotsTxt' = robotsParser(RobotsUrl(baseUrl), site.robots)
        /\ sitemapLinks' = sitemapLinks
                             \o KeepSitemaps(SitemapMatches(site.robots), baseDomain)
        /\ log' = Append(log, Event("get", RobotsUrl(baseUrl), TRUE))
        /\ faults' = faults
        /\ pc' = "sitemaps"
     \/ /\ ~site.hasRobots \/ MayFail
        /\ log' = Append(log, Event("get", RobotsUrl(baseUrl), FALSE))
        /\ faults' = IF site.hasRobots THEN faults + 1 ELSE faults
        /\ pc' = AfterRobotsFailure
        /\ UNCHANGED <<robotsTxt, sitemapLinks>>
  /\ UNCHANGED <<earlier, tasks, req, res, call, seed, site, baseUrl, baseDomain, maxDepth, visitedUrls,
                 allLinks, browser, sitemapIdx, stack, result>>

\* The body the server answers for a sitemap URL (none: the GET fails).
SitemapAt(s, sitemapUrl) == {m \in s.sitemaps : m.url = sitemapUrl}

\* A parseSitemap that sets allLinks to the URLs of the sitemap.
ParseSitemapReplacing(sitemapUrl, ok) ==
  IF ok
    THEN UNION {SitemapUrls(m.content, baseDomain) :
                  m \in SitemapAt(site, sitemapUrl)}
    ELSE allLinks

\* A parseSitemap that asks the robots policy before it adds a URL.
ParseSitemapRobotsChecked(sitemapUrl, ok) ==
  IF ok
    THEN allLinks \cup {u \in UNION {SitemapUrls(m.content, baseDomain) :
                                       m \in SitemapAt(site, sitemapUrl)} :
                          ~RobotsRefuses(u)}
    ELSE allLinks

\* parseSitemap(sitemapUrl), from the call to its return: the links allLinks
\* holds afterwards.  ok is whether the GET answered.
ParseSitemap(sitemapUrl, ok) ==
  IF ok
    THEN allLinks \cup UNION {SitemapUrls(m.content, baseDomain) :
                                m \in SitemapAt(site, sitemapUrl)}
    ELSE allLinks

\* A crawlPage that marks the seed visited without reporting it.
VisitSeedUnreported(target) ==
  IF target = NULL
    THEN /\ AfterTraversal(allLinks)
         /\ UNCHANGED <<visitedUrls, allLinks, stack, log>>
    ELSE /\ visitedUrls' = visitedUrls \cup {target}
         /\ allLinks' = allLinks
         /\ stack' = <<Frame(target, 0)>>
         /\ log' = Append(log, Event("visit", target, TRUE))
         /\ pc' = "pages"
         /\ result' = result

\* Lines 168-169 and the first await of the invocation of crawlPage that
\* crawl() makes for the seed, target being the URL it visits; it returns
\* at once when target is NULL.
VisitSeed(target) ==
  IF target = NULL
    THEN /\ AfterTraversal(allLinks)
         /\ UNCHANGED <<visitedUrls, allLinks, stack, log>>
    ELSE /\ visitedUrls' = visitedUrls \cup {target}
         /\ allLinks' = allLinks \cup {target}
         /\ stack' = <<Frame(target, 0)>>
         /\ log' = Append(log, Event("visit", target, TRUE))
         /\ pc' = "pages"
         /\ result' = result

\* One turn of the loop of line 400: await this.parseSitemap(sitemapUrl),
\* the GET answering (ok) or failing; the server has a body for the URL
\* when served is true.
SitemapTurn(sitemapUrl, served, ok) ==
  /\ allLinks' = ParseSitemap(sitemapUrl, ok)
  /\ log' = Append(log, Event("get", sitemapUrl, ok))
  /\ faults' = IF ok \/ ~served THEN faults ELSE faults + 1
  /\ sitemapIdx' = sitemapIdx + 1
  /\ UNCHANGED <<pc, visitedUrls, stack, result>>

\* crawl(), lines 399-405: the loop over this.sitemapLinks, one sitemap a
\* step, and after it the call crawlPage(this.baseUrl, 0).
CrawlSitemaps ==
  /\ pc = "sitemaps"
  /\ IF sitemapIdx <= Len(sitemapLinks)
       THEN \E ok \in BOOLEAN :
              /\ ok => SitemapAt(site, sitemapLinks[sitemapIdx]) # {}
              /\ ~ok => SitemapAt(site, sitemapLinks[sitemapIdx]) = {} \/ MayFail
              /\ SitemapTurn(sitemapLinks[sitemapIdx],
                             SitemapAt(site, sitemapLinks[sitemapIdx]) # {}, ok)
       ELSE /\ sitemapIdx' = sitemapIdx
            /\ faults' = faults
            /\ \E target \in {CrawlPageTarget(baseUrl, 0)} : VisitSeed(target)
  /\ UNCHANGED <<earlier, tasks, req, res, call, seed, site, baseUrl, baseDomain, maxDepth, robotsTxt,
                 sitemapLinks, browser>>

(***************************************************************************)
(* crawlPage: the awaits of an invocation that renders its page.           *)
(***************************************************************************)
InPage(at) == pc = "pages" /\ stack # <<>> /\ Top.at = at

\* this.browser = await puppeteer.launch(...); a rejection is caught by the
\* outer catch (line 388) and the invocation returns.
LaunchDone ==
  /\ InPage("launch")
  /\ \/ /\ browser' = Cardinality({i \in Events("launch") : log[i].ok}) + 1
        /\ stack' = SetTop([Top EXCEPT !.at = "newPage"])
        /\ log' = Append(log, Event("launch", Top.url, TRUE))
        /\ UNCHANGED <<pc, result, faults>>
     \/ /\ MayFail
        /\ faults' = faults + 1
        /\ log' = Append(log, Event("launch", Top.url, FALSE))
        /\ browser' = browser
        /\ Return(Pop)
  /\ UNCHANGED <<earlier, tasks, req, res, call, seed, site, baseUrl, baseDomain, maxDepth, visitedUrls,
                 allLinks, robotsTxt, sitemapLinks, sitemapIdx>>

\* const page = await this.browser.newPage(); a rejection goes to the
\* outer catch.
NewPageDone ==
  /\ InPage("newPage")
  /\ \/ /\ stack' = SetTop([Top EXCEPT !.at = "setup"])
        /\ log' = Append(log, Event("newPage", Top.url, TRUE))
        /\ UNCHANGED <<pc, result, faults>>
     \/ /\ MayFail
        /\ faults' = faults + 1
        /\ log' = Append(log, Event("newPage", Top.url, FALSE))
        /\ Return(Pop)
  /\ UNCHANGED <<earlier, tasks, req, res, call, seed, site, baseUrl, baseDomain, maxDepth, visitedUrls,
                 allLinks, robotsTxt, sitemapLinks, browser, sitemapIdx>>

\* await page.setDefaultNavigationTimeout(...); await page.setUserAgent(...):
\* lines 191-194 stand before the inner try, so a rejection goes to the
\* outer catch and page.close() is not reached.
SetupDone ==
  /\ InPage("setup")
  /\ \/ /\ stack' = SetTop([Top EXCEPT !.at = "goto"])
        /\ log' = Append(log, Event("setup", Top.url, TRUE))
        /\ UNCHANGED <<pc, result, faults>>
     \/ /\ MayFail
        /\ faults' = faults + 1
        /\ log' = Append(log, Event("setup", Top.url, FALSE))
        /\ Return(Pop)
  /\ UNCHANGED <<earlier, tasks, req, res, call, seed, site, baseUrl, baseDomain, maxDepth, visitedUrls,
                 allLinks, robotsTxt, sitemapLinks, browser, sitemapIdx>>

\* A try block that holds page.goto alone: after the rejection is logged
\* the invocation goes on to extract links.
CaughtAndExtracting(st) == [st EXCEPT ![Len(st)].at = "evaluate"]

\* The invocations after the inner catch (lines 382-386) caught a rejection
\* in the innermost one: that one goes to its finally clause.
Caught(st) == [st EXCEPT ![Len(st)].at = "close"]

\* if (redirectedNormalized && this.isSameDomain(redirectedNormalized))
RedirectKept(redirectedNormalized) ==
  /\ redirectedNormalized # NULL
  /\ isSameDomain(redirectedNormalized, baseDomain)

\* Lines 225-231 for the page finally loaded: normalizedUrl is declared
\* const at line 154, so the assignment of line 228 throws a TypeError
\* when it is reached, before line 229 adds the final URL.
RedirectThrows(normalizedUrl, currentPageUrl) ==
  /\ currentPageUrl # normalizedUrl
  /\ Of(RedirectKept, normalizeLink(currentPageUrl, baseUrl))

\* The invocations after page.goto resolved, in the innermost one, with the
\* page at currentPageUrl.
AfterGoto(st, currentPageUrl) ==
  IF RedirectThrows(st[Len(st)].url, currentPageUrl)
    THEN Caught(st)
    ELSE [st EXCEPT ![Len(st)].at = "evaluate", ![Len(st)].base = currentPageUrl]

\* await page.goto(normalizedUrl, ...) and the waits after it, then the
\* redirect check up to the call of page.evaluate.  A rejection, or the
\* TypeError, is caught by the inner catch (line 382); the finally clause
\* closes the page.
GotoDone ==
  /\ InPage("goto")
  /\ \/ /\ log' = Append(log, Event("goto", Top.url, TRUE))
        /\ stack' = Of2(AfterGoto, stack, CurrentPageUrl(site, Top.url))
        /\ faults' = faults
     \/ /\ MayFail
        /\ faults' = faults + 1
        /\ log' = Append(log, Event("goto", Top.url, FALSE))
        /\ stack' = Caught(stack)
  /\ UNCHANGED <<earlier, tasks, req, res, call, seed, site, pc, baseUrl, baseDomain, maxDepth, visitedUrls,
                 allLinks, robotsTxt, sitemapLinks, browser, sitemapIdx, result>>

\* const links = await page.evaluate(..., currentPageUrl)
EvaluateDone ==
  /\ InPage("evaluate")
  /\ \/ /\ log' = Append(log, Event("evaluate", Top.url, TRUE))
        /\ stack' = SetTop([Top EXCEPT
             !.at = "links",
             !.links = ExtractLinks(PageAt(site, Top.url).hrefs, Top.base, <<>>),
             !.i = 1])
        /\ faults' = faults
     \/ /\ MayFail
        /\ faults' = faults + 1
        /\ log' = Append(log, Event("evaluate", Top.url, FALSE))
        /\ stack' = Caught(stack)
  /\ UNCHANGED <<earlier, tasks, req, res, call, seed, site, pc, baseUrl, baseDomain, maxDepth, visitedUrls,
                 allLinks, robotsTxt, sitemapLinks, browser, sitemapIdx, result>>

\* A recursion that passes its own depth on.
ChildDepthSame(depth) == depth

\* The depth crawlPage is called with for a link of a page at depth.
ChildDepth(depth) == depth + 1

\* normalizeLink(link, normalizedUrl) || link
OrLink(normalized, link) == IF normalized = NULL THEN link ELSE normalized

\* The tests of lines 362 and 367 on a normalized link.
KeepLink(normalizedLink) ==
  /\ isValidUrl(normalizedLink)
  /\ isSameDomain(normalizedLink, baseDomain)
  /\ Protocol(ParseURL(normalizedLink)) \in {"http", "https"}

\* Lines 368-373 for a link that passed the tests: what crawlPage, called
\* below the depth limit, goes on to visit (NULL: no call, or it returns
\* at once).
Recursion(normalizedLink, depth) ==
  IF depth < maxDepth
    THEN CrawlPageTarget(normalizedLink, ChildDepth(depth))
    ELSE NULL

\* A loop that does not move on to the next link.
LinkTurnStuck(normalizedLink, keep, target) ==
  /\ allLinks' = allLinks
       \cup (IF keep THEN {normalizedLink} ELSE {})
       \cup (IF target # NULL THEN {target} ELSE {})
  /\ visitedUrls' = visitedUrls \cup (IF target # NULL THEN {target} ELSE {})
  /\ stack' = IF target # NULL
                THEN Append(stack, Frame(target, ChildDepth(Top.depth)))
                ELSE stack
  /\ log' = IF target # NULL
              THEN Append(log, Event("visit", target, TRUE))
              ELSE log

\* A loop that calls crawlPage without await: the invocation it started
\* runs on after the caller, which goes on with the next link at once.
LinkTurnNotAwaited(normalizedLink, keep, target) ==
  /\ allLinks' = allLinks
       \cup (IF keep THEN {normalizedLink} ELSE {})
       \cup (IF target # NULL THEN {target} ELSE {})
  /\ visitedUrls' = visitedUrls \cup (IF target # NULL THEN {target} ELSE {})
  /\ stack' = IF target # NULL
                THEN SubSeq(stack, 1, Len(stack) - 1)
                       \o <<Frame(target, ChildDepth(Top.depth)),
                            [Top EXCEPT !.i = @ + 1]>>
                ELSE SetTop([Top EXCEPT !.i = @ + 1])
  /\ log' = IF target # NULL
              THEN Append(log, Event("visit", target, TRUE))
              ELSE log

\* A loop that reports a link only when robots.txt allows it.
LinkTurnGated(normalizedLink, keep, target) ==
  /\ allLinks' = allLinks
       \cup (IF keep /\ ~RobotsRefuses(normalizedLink) THEN {normalizedLink} ELSE {})
       \cup (IF target # NULL THEN {target} ELSE {})
  /\ visitedUrls' = visitedUrls \cup (IF target # NULL THEN {target} ELSE {})
  /\ stack' = IF target # NULL
                THEN Append(SetTop([Top EXCEPT !.i = @ + 1]),
                            Frame(target, ChildDepth(Top.depth)))
                ELSE SetTop([Top EXCEPT !.i = @ + 1])
  /\ log' = IF target # NULL
              THEN Append(log, Event("visit", target, TRUE))
              ELSE log

\* The effect of one turn of the loop: the link kept or not, and target the
\* URL the recursive invocation visits, if any.
LinkTurn(normalizedLink, keep, target) ==
  /\ allLinks' = allLinks
       \cup (IF keep THEN {normalizedLink} ELSE {})
       \cup (IF target # NULL THEN {target} ELSE {})
  /\ visitedUrls' = visitedUrls \cup (IF target # NULL THEN {target} ELSE {})
  /\ stack' = IF target # NULL
                THEN Append(SetTop([Top EXCEPT !.i = @ + 1]),
                            Frame(target, ChildDepth(Top.depth)))
                ELSE SetTop([Top EXCEPT !.i = @ + 1])
  /\ log' = IF target # NULL
              THEN Append(log, Event("visit", target, TRUE))
              ELSE log

\* One turn for the normalized link.
LinkTurnOf(normalizedLink) ==
  IF KeepLink(normalizedLink)
    THEN \E target \in {Recursion(normalizedLink, Top.depth)} :
           LinkTurn(normalizedLink, TRUE, target)
    ELSE LinkTurn(normalizedLink, FALSE, NULL)

\* Lines 358-380, one link a step: the link is normalized against the
\* (unchanged) normalizedUrl, kept in allLinks when valid and of the base
\* domain, and below the depth limit crawlPage is called for it, which
\* either returns at once or becomes the innermost invocation.  After the
\* last link the finally clause calls page.close().
ProcessLink ==
  /\ InPage("links")
  /\ IF Top.i > Len(Top.links)
       THEN /\ stack' = SetTop([Top EXCEPT !.at = "close"])
            /\ UNCHANGED <<visitedUrls, allLinks, log>>
       ELSE \E normalizedLink \in {OrLink(normalizeLink(Top.links[Top.i], Top.url),
                                          Top.links[Top.i])} :
              LinkTurnOf(normalizedLink)
  /\ UNCHANGED <<earlier, tasks, req, res, call, seed, site, pc, baseUrl, baseDomain, maxDepth, robotsTxt,
                 sitemapLinks, browser, sitemapIdx, result, faults>>

\* finally { await page.close(); }: the invocation returns after it; a
\* rejection is caught by the outer catch, and the invocation returns too.
PageCloseDone ==
  /\ InPage("close")
  /\ \/ /\ log' = Append(log, Event("pageClose", Top.url, TRUE))
        /\ faults' = faults
     \/ /\ MayFail
        /\ faults' = faults + 1
        /\ log' = Append(log, Event("pageClose", Top.url, FALSE))
  /\ Return(Pop)
  /\ UNCHANGED <<earlier, tasks, req, res, call, seed, site, baseUrl, baseDomain, maxDepth, visitedUrls,
                 allLinks, robotsTxt, sitemapLinks, browser, sitemapIdx>>

\* await this.browser.close(); this.browser = null; return the sorted
\* links.  The await of line 409 stands in no try block: when close()
\* rejects, crawl() and crawlWebsite reject with its error, line 410 is not
\* reached and nothing is returned.
BrowserCloseDone ==
  /\ pc = "closing"
  /\ \/ /\ log' = Append(log, Event("browserClose", <<>>, TRUE))
        /\ browser' = 0
        /\ pc' = "done"
        /\ result' = SortLinks(allLinks)
        /\ faults' = faults
     \/ /\ MayFail
        /\ faults' = faults + 1
        /\ log' = Append(log, Event("browserClose", <<>>, FALSE))
        /\ pc' = "error"
        /\ UNCHANGED <<browser, result>>
  /\ UNCHANGED <<earlier, tasks, req, res, call, seed, site, baseUrl, baseDomain, maxDepth, visitedUrls,
                 allLinks, robotsTxt, sitemapLinks, sitemapIdx, stack>>

Next ==
  \/ NewCrawler
  \/ StartCrawl
  \/ FetchRobotsTxt
  \/ CrawlSitemaps
  \/ LaunchDone
  \/ NewPageDone
  \/ SetupDone
  \/ GotoDone
  \/ EvaluateDone
  \/ ProcessLink
  \/ PageCloseDone
  \/ BrowserCloseDone

Spec == Init /\ [][Next]_vars

\* Every await of the crawl settles: the call returns or fails.
FairSpec == Spec /\ WF_vars(Next)

(***************************************************************************)
(* The class used directly: WebsiteCrawler is exported, and a client may   *)
(* call parseSitemap on a crawler, before crawl() or after it returned.    *)
(***************************************************************************)
\* await crawler.parseSitemap(sitemapUrl), for a sitemap of the site not
\* fetched before: the GET answers or fails.
ParseSitemapCall ==
  /\ pc \in {"ready", "done"}
  /\ \E m \in site.sitemaps, ok \in BOOLEAN :
       /\ \A i \in Events("get") : log[i].url # m.url
       /\ ~ok => MayFail
       /\ allLinks' = ParseSitemap(m.url, ok)
       /\ log' = Append(log, Event("get", m.url, ok))
       /\ faults' = IF ok THEN faults ELSE faults + 1
  /\ UNCHANGED <<earlier, tasks, req, res, call, seed, site, pc, baseUrl, baseDomain, maxDepth, visitedUrls,
                 robotsTxt, sitemapLinks, browser, sitemapIdx, stack, result>>

ApiNext == Next \/ ParseSitemapCall

ApiSpec == Init /\ [][ApiNext]_vars

(***************************************************************************)
(* normalizeLink called by a client on a crawler built for ex.com, and the *)
(* two places of crawlPage that a candidate link goes through: the loop    *)
(* over the links of a page, and the head of crawlPage.                    *)
(***************************************************************************)
Range(seq) == {seq[i] : i \in DOMAIN seq}

HrefTokens == {"/", "a", "#"}

\* The texts of at most n tokens.
RECURSIVE TextsUpTo(_)
TextsUpTo(n) ==
  IF n = 0 THEN {<<>>}
  ELSE Of(LAMBDA shorter :
            shorter \cup {Append(x, tok) : x \in shorter, tok \in HrefTokens},
          TextsUpTo(n - 1))

\* The references relative to the base.
RelativeHrefs == TextsUpTo(MaxHrefLen)

\* The absolute URLs of the host ex.com.
AbsoluteHrefs ==
  {Ex \o r : r \in {x \in TextsUpTo(MaxHrefLen) : x = <<>> \/ x[1] # "a"}}

\* The link types normalizeLink names, white space, other hosts and
\* schemes, and texts that are no URL.
OtherHrefs ==
  {<<" ">>, <<" ", " ">>, <<" ", "#">>, <<"#", " ">>,
   <<"javascript", ":", "void(0)">>, <<"mailto", ":", "a@b.com">>,
   <<"tel", ":", "123">>, <<"data", ":", "x">>,
   <<" ", "mailto", ":", "a@b.com">>, <<" ", "/", "a", "/", " ">>,
   <<"https", ":", "/", "/", "bad^host", "/">>, <<"/", "/", "bad^host">>,
   <<"https", ":", "/", "/">>,
   <<"http", ":", "/", "/", "ex.com", "/", "a", "/">>,
   <<"ftp", ":", "/", "/", "ex.com", "/", "a">>,
   <<"/", "/", "sub.ex.com", "/", "a", "/">>,
   <<"https", ":", "/", "/", "other.org", "/", "a", "#", "a">>}

Hrefs == RelativeHrefs \cup AbsoluteHrefs \cup OtherHrefs

\* The baseUrl arguments: the root page, a page, a directory, and a text
\* that new URL(baseUrl) cannot parse.
Bases ==
  {Ex \o <<"/">>, Ex \o <<"/", "a">>, Ex \o <<"/", "a", "/">>, <<"ex.com">>}

\* new WebsiteCrawler('ex.com', 0) is built and normalizeLink(href, base) is
\* called on it.
NormInit ==
  /\ seed = <<"ex.com">>
  /\ site \in {SiteScope}
  /\ maxDepth = 0
  /\ pc = "ready"
  /\ baseUrl = normalizeUrl(<<"ex.com">>)
  /\ baseDomain = getDomain(normalizeUrl(<<"ex.com">>))
  /\ visitedUrls = {}
  /\ allLinks = {}
  /\ robotsTxt = NoRobots
  /\ sitemapLinks = <<>>
  /\ browser = 0
  /\ sitemapIdx = 1
  /\ stack = <<>>
  /\ result = <<>>
  /\ log = <<>>
  /\ faults = 0
  /\ req = NoRequest
  /\ res = NoResponse
  /\ tasks = <<>>
  /\ earlier = NoEarlier
  /\ \E href \in Hrefs, base \in Bases :
       call = [NoCall EXCEPT !.href = href, !.base = base, !.at = "called"]

\* normalizeLink(href, base) returns.
NormalizeLinkCall ==
  /\ call.at = "called"
  /\ call' = [call EXCEPT !.out = normalizeLink(call.href, call.base),
                          !.at = "returned"]
  /\ UNCHANGED <<earlier, tasks, req, res, seed, site, pc, baseUrl, baseDomain, maxDepth, visitedUrls,
                 allLinks, robotsTxt, sitemapLinks, browser, sitemapIdx, stack,
                 result, log, faults>>

\* normalizeLink is called again, on the URL it returned.
NormalizeLinkAgain ==
  /\ call.at = "returned"
  /\ call.out # NULL
  /\ call' = [call EXCEPT !.variant = call.out,
                          !.again = normalizeLink(call.out, call.base),
                          !.at = "again"]
  /\ UNCHANGED <<earlier, tasks, req, res, seed, site, pc, baseUrl, baseDomain, maxDepth, visitedUrls,
                 allLinks, robotsTxt, sitemapLinks, browser, sitemapIdx, stack,
                 result, log, faults>>

\* The texts that differ from href by a trailing slash or by a fragment:
\* none when href has a fragment already.
Variants(href) ==
  IF IndexOf(href, "#") # 0 THEN {}
  ELSE {Trim(href) \o <<"/">>, Trim(href) \o <<"#", "frag">>}

\* normalizeLink is called for a text that differs from href by a trailing
\* slash or by a fragment.
NormalizeVariant ==
  /\ call.at = "returned"
  /\ \E v \in Variants(call.href) :
       call' = [call EXCEPT !.variant = v,
                            !.again = normalizeLink(v, call.base),
                            !.at = "variant"]
  /\ UNCHANGED <<earlier, tasks, req, res, seed, site, pc, baseUrl, baseDomain, maxDepth, visitedUrls,
                 allLinks, robotsTxt, sitemapLinks, browser, sitemapIdx, stack,
                 result, log, faults>>

\* Lines 234-380 for a page at base whose only candidate is href, at the
\* depth limit: addLink in the browser, then the loop over the links.
LinkLoop ==
  /\ call.at = "returned"
  /\ allLinks' = allLinks \cup
       {l \in {OrLink(normalizeLink(x, call.base), x) :
                 x \in Range(ExtractLinks(<<call.href>>, call.base, <<>>))} :
          KeepLink(l)}
  /\ call' = [call EXCEPT !.at = "looped"]
  /\ UNCHANGED <<earlier, tasks, req, res, seed, site, pc, baseUrl, baseDomain, maxDepth, visitedUrls,
                 robotsTxt, sitemapLinks, browser, sitemapIdx, stack, result,
                 log, faults>>

\* crawlPage(href, 0) up to its first await: lines 150-169, and the
\* invocation at the launch of the browser when the checks let href through.
CrawlPageHead ==
  /\ call.at = "returned"
  /\ \E target \in {CrawlPageTarget(call.href, 0)} :
       IF target = NULL
         THEN UNCHANGED <<visitedUrls, allLinks, stack, log>>
         ELSE /\ visitedUrls' = visitedUrls \cup {target}
              /\ allLinks' = allLinks \cup {target}
              /\ stack' = <<Frame(target, 0)>>
              /\ log' = Append(log, Event("visit", target, TRUE))
  /\ call' = [call EXCEPT !.at = "visited"]
  /\ UNCHANGED <<earlier, tasks, req, res, seed, site, pc, baseUrl, baseDomain, maxDepth, robotsTxt,
                 sitemapLinks, browser, sitemapIdx, result, faults>>

NormNext ==
  \/ NormalizeLinkCall
  \/ NormalizeLinkAgain
  \/ NormalizeVariant
  \/ LinkLoop
  \/ CrawlPageHead

NormSpec == NormInit /\ [][NormNext]_vars

(***************************************************************************)
(* server.js: the handler of POST /api/crawl.  The url of the body is a    *)
(* JSON value: its kind, and its text when it is a string.                 *)
(***************************************************************************)
\* crawlWebsite builds new WebsiteCrawler(url, 2).
CrawlWebsiteDepth == 2

Requests ==
  {[kind |-> "undefined", text |-> NULL],
   [kind |-> "null", text |-> NULL],
   [kind |-> "number", text |-> NULL],
   [kind |-> "string", text |-> <<>>],
   [kind |-> "string", text |-> <<" ", " ">>],
   [kind |-> "string", text |-> <<" ", "ex.com", " ">>],
   [kind |-> "string", text |-> <<"ex.com", "/", "private">>],
   [kind |-> "string", text |-> <<"http", ":", "/", "/", "ex.com", "/", "a", "/">>],
   [kind |-> "string", text |-> <<" ", "https", ":", "/", "/">>]}

\* A handler that does not trim the url before it tests its length.
UrlRefusedUntrimmed(url) ==
  \/ url.kind \in {"undefined", "null"}
  \/ url.kind # "string"
  \/ Len(url.text) = 0

\* !url || typeof url !== 'string' || url.trim().length === 0
UrlRefused(url) ==
  \/ url.kind \in {"undefined", "null"} \/ url.text = <<>>
  \/ url.kind # "string"
  \/ Len(Trim(url.text)) = 0

\* The message of the error crawlWebsite rejected with: the Error of
\* normalizeUrl (crawler line 30), or the error of browser.close().
ErrorMessage ==
  IF \E i \in Events("browserClose") : ~log[i].ok
    THEN <<"browser.close() rejected">>
  ELSE IF StartsWith(seed, <<"http", ":", "/", "/">>)
          \/ StartsWith(seed, <<"https", ":", "/", "/">>)
    THEN <<"Invalid URL: ">> \o seed
  ELSE <<"Invalid URL: ", "https", ":", "/", "/">> \o seed

\* The request arrives: no crawler exists yet.
ServerInit ==
  /\ req \in Requests
  /\ res = NoResponse
  /\ site \in Sites
  /\ seed = NULL
  /\ maxDepth = CrawlWebsiteDepth
  /\ pc = "idle"
  /\ baseUrl = NULL
  /\ baseDomain = ""
  /\ visitedUrls = {}
  /\ allLinks = {}
  /\ robotsTxt = NoRobots
  /\ sitemapLinks = <<>>
  /\ browser = 0
  /\ sitemapIdx = 1
  /\ stack = <<>>
  /\ result = <<>>
  /\ log = <<>>
  /\ faults = 0
  /\ call = NoCall
  /\ tasks = <<>>
  /\ earlier = NoEarlier

\* Lines 12-23: the url is refused with status 400, or crawlWebsite is
\* called with the trimmed url and the handler awaits it.
PostCrawl ==
  /\ pc = "idle"
  /\ res = NoResponse
  /\ IF UrlRefused(req)
       THEN /\ res' = [NoResponse EXCEPT
                         !.status = 400,
                         !.error = "URL is required and must be a non-empty string"]
            /\ UNCHANGED <<seed, pc>>
       ELSE /\ seed' = Trim(req.text)
            /\ pc' = "start"
            /\ res' = res
  /\ UNCHANGED <<earlier, tasks, req, call, site, baseUrl, baseDomain, maxDepth, visitedUrls,
                 allLinks, robotsTxt, sitemapLinks, browser, sitemapIdx, stack,
                 result, log, faults>>

\* Lines 26-32, crawlWebsite having returned links: res.json sends them
\* with status 200.
RespondLinks ==
  /\ pc = "done"
  /\ res = NoResponse
  /\ res' = [NoResponse EXCEPT
               !.status = 200, !.success = TRUE, !.url = Trim(req.text),
               !.totalLinks = Len(result), !.links = result]
  /\ UNCHANGED <<earlier, tasks, req, call, seed, site, pc, baseUrl, baseDomain, maxDepth,
                 visitedUrls, allLinks, robotsTxt, sitemapLinks, browser,
                 sitemapIdx, stack, result, log, faults>>

\* Lines 33-40, crawlWebsite having rejected: the catch answers with status
\* 500 and the message of the error.
RespondError ==
  /\ pc = "error"
  /\ res = NoResponse
  /\ res' = [NoResponse EXCEPT
               !.status = 500, !.error = "Failed to crawl website",
               !.message = ErrorMessage]
  /\ UNCHANGED <<earlier, tasks, req, call, seed, site, pc, baseUrl, baseDomain, maxDepth,
                 visitedUrls, allLinks, robotsTxt, sitemapLinks, browser,
                 sitemapIdx, stack, result, log, faults>>

ServerNext ==
  \/ PostCrawl
  \/ Next
  \/ RespondLinks
  \/ RespondError

ServerSpec == ServerInit /\ [][ServerNext]_vars

\* The handler runs on, and every await of the crawl settles.
FairServerSpec == ServerSpec /\ WF_vars(ServerNext)

(***************************************************************************)
(* The properties of a crawl.  VisitedSet is visitedUrls, ResultSet is     *)
(* allLinks, and log tells which calls were made.                          *)
(***************************************************************************)
\* The canonical seed, the URL crawlPage(this.baseUrl, 0) is about.
SeedUrl == normalizeLink(baseUrl, baseUrl)

\* The links of the page served for u as the loop of line 358 takes them:
\* extracted against the URL finally loaded, normalized against u.
PageLinks(u) ==
  {OrLink(normalizeLink(l, u), l) :
     l \in Range(ExtractLinks(PageAt(site, u).hrefs, CurrentPageUrl(site, u), <<>>))}

\* Those of them that are in scope.
KeptLinks(u) == {l \in PageLinks(u) : KeepLink(l)}

\* The canonical URLs the page served for u links to.
LinkedFrom(u) == {normalizeLink(l, baseUrl) : l \in KeptLinks(u)} \ {NULL}

\* The URLs seen, with those that chains of at most k links lead to from
\* the URLs of frontier, Links(u) being the URLs one link away from u.
RECURSIVE Spread(_, _, _, _)
Spread(Links(_), seen, frontier, k) ==
  IF k = 0 \/ frontier = {} THEN seen
  ELSE Of(LAMBDA next : Spread(Links, seen \cup next, next \ seen, k - 1),
          UNION {Links(u) : u \in frontier})

\* Whether the links of u were extracted in this crawl.
Evaluated(u) == \E i \in Events("evaluate") : log[i].url = u /\ log[i].ok

\* The link the loop of the innermost invocation is about to take.
AtLink == InPage("links") /\ Top.i <= Len(Top.links)

PendingLink == OrLink(normalizeLink(Top.links[Top.i], Top.url), Top.links[Top.i])

\* The link the loop of the innermost invocation took last.
TakenLink ==
  OrLink(normalizeLink(Top.links[Top.i - 1], Top.url), Top.links[Top.i - 1])

\* The URLs whose render failed: a call of lines 175-353 rejected.
RenderOps == {"launch", "newPage", "setup", "goto", "evaluate"}

FailedRenders ==
  {log[i].url : i \in {j \in DOMAIN log : log[j].op \in RenderOps /\ ~log[j].ok}}

\* ---- C1 ----
\* No URL has two events of the operation in the log.
OncePerUrl(op) ==
  \A i, j \in Events(op) : log[i].url = log[j].url => i = j

\* The next turn of the loop calls crawlPage for a URL already visited.
RevisitCall ==
  /\ AtLink
  /\ KeepLink(PendingLink)
  /\ Top.depth < maxDepth
  /\ normalizeLink(PendingLink, baseUrl) \in visitedUrls

\* Such a turn adds the link (line 368) and nothing else: the call returns
\* at once, no URL is marked visited, no call is made, no invocation starts.
RevisitIsNoOp ==
  RevisitCall =>
    /\ visitedUrls' = visitedUrls
    /\ allLinks' = allLinks \cup {PendingLink}
    /\ log' = log
    /\ Len(stack') = Len(stack)

\* C1: each canonical URL enters visitedUrls at most once and page.goto is
\* attempted for it at most once, whatever fails; and a crawlPage call for a
\* URL already in visitedUrls changes neither visitedUrls nor allLinks.
C1_VisitOnce ==
  /\ [](OncePerUrl("visit") /\ OncePerUrl("goto"))
  /\ [][RevisitIsNoOp]_vars

\* A call for a visited URL has just returned, after a call had failed: the
\* link taken last is visited, and the last call made was not for it.
C1_Witness ==
  /\ InPage("links")
  /\ Top.i > 1
  /\ Top.depth < maxDepth
  /\ faults > 0
  /\ KeepLink(TakenLink)
  /\ normalizeLink(TakenLink, baseUrl) \in visitedUrls
  /\ log[Len(log)].url # normalizeLink(TakenLink, baseUrl)

\* ---- C2 ----
\* The links this crawl extracted from u.
ExtractedFrom(u) == IF Evaluated(u) THEN LinkedFrom(u) ELSE {}

\* The URLs a chain of at most k extracted links leads to from the seed.
Within(k) == Spread(ExtractedFrom, {SeedUrl}, {SeedUrl}, k)

\* C2: every URL of visitedUrls was reached from the seed by a chain of at
\* most maxDepth extracted links; a URL further away is never visited.
C2_DepthBound ==
  visitedUrls # {} => visitedUrls \subseteq Within(maxDepth)

\* The crawl returned with a leaf discovered but not visited: a URL at
\* distance maxDepth + 1 that the visit checks would have let through.
C2_Witness ==
  /\ pc = "done"
  /\ \E u \in allLinks \ visitedUrls :
       /\ u \in Within(maxDepth + 1)
       /\ u \notin Within(maxDepth)
       /\ ~RobotsRefuses(u)

\* ---- C3 ----
\* The URLs at link distance at most k from the seed in the site's graph.
Reach(k) == Spread(LinkedFrom, {SeedUrl}, {SeedUrl}, k)

\* No call failed, and no page within the depth bound ran into the
\* TypeError of line 228.
NoRenderFails ==
  /\ faults = 0
  /\ \A u \in Reach(maxDepth) : ~RedirectThrows(u, CurrentPageUrl(site, u))

\* The robots policy refuses no URL the reference crawl would meet.
RobotsDisallowsNothing ==
  \A u \in Reach(maxDepth + 1) : ~RobotsRefuses(u)

\* C3: when robots.txt disallows nothing and no render fails, the crawl
\* visits every in-scope URL at link distance at most maxDepth, and the
\* result has every in-scope URL at distance at most maxDepth + 1, as a
\* breadth-first crawl with the same bound would.
C3_Coverage ==
  (pc = "done" /\ NoRenderFails /\ RobotsDisallowsNothing) =>
    /\ Reach(maxDepth) \subseteq visitedUrls
    /\ Reach(maxDepth + 1) \subseteq allLinks

\* ---- C4 ----
\* The hostname parsed from the seed, the https:// prefix applied.
SeedHostname == Hostname(ParseURL(normalizeUrl(seed)))

InScope(u) ==
  /\ ParseURL(u).ok
  /\ Protocol(ParseURL(u)) \in {"http", "https"}
  /\ Hostname(ParseURL(u)) = SeedHostname

\* C4: every URL of allLinks, and every URL returned, has scheme http or
\* https and exactly the seed's hostname, whether it came from a page link,
\* a redirect or a sitemap.
C4_Scope ==
  /\ \A u \in allLinks : InScope(u)
  /\ \A i \in DOMAIN result : InScope(result[i])

\* The crawl returned after a sitemap gave links and a page was rendered
\* that has links out of scope.
C4_Witness ==
  /\ pc = "done"
  /\ \E m \in site.sitemaps :
       /\ SitemapUrls(m.content, baseDomain) # {}
       /\ \E i \in Events("get") : log[i].url = m.url /\ log[i].ok
  /\ \E u \in visitedUrls : Evaluated(u) /\ PageLinks(u) # KeptLinks(u)

\* ---- C5 ----
\* The policy obtained disallows u for LinkFinderBot.
Disallowed(u) == robotsTxt.present /\ ~isAllowed(robotsTxt, u)

\* C5: a URL the obtained robots policy disallows never enters visitedUrls
\* and is never rendered.
C5_RobotsGate ==
  /\ \A u \in visitedUrls : ~Disallowed(u)
  /\ \A i \in DOMAIN log :
       log[i].op \in {"visit"} \cup RenderOps => ~Disallowed(log[i].url)

\* The crawl returned having met, on the seed's page and below the depth
\* limit, a link the policy disallows: it is reported but was not visited.
C5_Witness ==
  /\ pc = "done"
  /\ maxDepth >= 1
  /\ Evaluated(SeedUrl)
  /\ \E l \in KeptLinks(SeedUrl) :
       /\ Disallowed(normalizeLink(l, baseUrl))
       /\ l \in allLinks
       /\ normalizeLink(l, baseUrl) \notin visitedUrls

\* ---- C6 ----
\* The page finally loaded for u is at another URL, in scope once
\* canonicalized.
RedirectedInScope(u) ==
  /\ CurrentPageUrl(site, u) # u
  /\ normalizeLink(CurrentPageUrl(site, u), baseUrl) # NULL
  /\ isSameDomain(normalizeLink(CurrentPageUrl(site, u), baseUrl), baseDomain)

\* C6: when a render succeeds at a final URL that differs from the
\* requested one and is in scope, the final URL is added to allLinks and
\* the in-scope links of the redirected page are extracted and added.
C6_Redirect ==
  (pc = "done" /\ faults = 0) =>
    \A i \in Events("goto") :
      (log[i].ok /\ RedirectedInScope(log[i].url)) =>
        /\ normalizeLink(CurrentPageUrl(site, log[i].url), baseUrl) \in allLinks
        /\ KeptLinks(log[i].url) \subseteq allLinks

\* ---- C7 ----
\* A failed render is a leaf: its URL stays visited and reported, its
\* invocation holds no links and only closes its page; the loops of the
\* pages rendered run to their end; the result returned has the URL.
RenderFailureIsLeaf ==
  /\ FailedRenders \subseteq visitedUrls \cap allLinks
  /\ \A k \in DOMAIN stack :
       stack[k].url \in FailedRenders =>
         stack[k].links = <<>> /\ stack[k].at = "close"
  /\ pc = "done" =>
       /\ \A u \in visitedUrls : Evaluated(u) => KeptLinks(u) \subseteq allLinks
       /\ FailedRenders \subseteq Range(result)

\* browser.close() rejected: the one failure crawl() does not absorb.
CloseRejected == \E i \in Events("browserClose") : ~log[i].ok

SeedWithScheme ==
  IF StartsWith(seed, <<"http", ":", "/", "/">>)
     \/ StartsWith(seed, <<"https", ":", "/", "/">>)
    THEN seed ELSE <<"https", ":", "/", "/">> \o seed

SeedUnparseable == ~ParseURL(SeedWithScheme).ok

\* C8: an unparseable seed makes crawlWebsite fail before any fetch, launch
\* or render; and nothing else makes it fail.
C8_FailFast ==
  /\ SeedUnparseable => (pc \in {"start", "error"} /\ log = <<>> /\ browser = 0)
  /\ pc = "error" => SeedUnparseable

\* ---- C9 ----
\* The launches that gave a browser.
Launched == {i \in Events("launch") : log[i].ok}

\* The browser.close() calls that resolved.
Closed == {i \in Events("browserClose") : log[i].ok}

\* C9: the browser is launched only once a URL has passed the visit checks
\* and after every fetch of the discovery; at most one handle is held at
\* any time; when crawl() is over close() was called once for the browser
\* launched, and on return no handle is held.
C9_BrowserLifecycle ==
  /\ \A i \in Events("launch") :
       /\ \E j \in Events("visit") : j < i
       /\ \A j \in Events("get") : j < i
  /\ visitedUrls = {} => Events("launch") = {}
  /\ Cardinality(Launched) - Cardinality(Closed) = IF browser = 0 THEN 0 ELSE 1
  /\ pc \in {"done", "error"} =>
       Cardinality(Events("browserClose")) = Cardinality(Launched)
  /\ pc = "done" => browser = 0

\* The crawl returned, a render having failed on the way: the browser was
\* launched once and closed once.
C9_Witness ==
  /\ pc = "done"
  /\ FailedRenders # {}
  /\ Cardinality(Launched) = 1
  /\ Cardinality(Closed) = 1

\* ---- C10 ----
\* A line of robots.txt of the form Sitemap: <URL>, in any letter case.
IsDirective(line) ==
  Len(line) >= 3 /\ line[1] \in SitemapWords /\ line[2] = ":"

\* The URL after the colon.
DirectiveUrl(line) == Trim(SubSeq(line, 3, Len(line)))

\* The URL is absolute, http or https, and on the base domain.
Honourable(line) ==
  /\ IsDirective(line)
  /\ isValidUrl(DirectiveUrl(line))
  /\ isSameDomain(DirectiveUrl(line), baseDomain)

\* C10: once robots.txt was fetched, every directive Sitemap: <URL> with an
\* absolute http/https URL on the base domain is kept in sitemapLinks, and
\* by the time the traversal starts it was passed to parseSitemap; the
\* other directives are not kept.
C10_SitemapsHonoured ==
  robotsTxt.present =>
    /\ \A k \in DOMAIN site.robots :
         Honourable(site.robots[k]) =>
           /\ DirectiveUrl(site.robots[k]) \in Range(sitemapLinks)
           /\ pc \in {"pages", "closing", "done"} =>
                \E i \in Events("get") : log[i].url = DirectiveUrl(site.robots[k])
    /\ \A j \in DOMAIN sitemapLinks :
         \E k \in DOMAIN site.robots :
           Honourable(site.robots[k]) /\ DirectiveUrl(site.robots[k]) = sitemapLinks[j]


\* ---- C11 ----
\* A canonical URL: absolute, without a fragment, and without a trailing
\* slash unless it is the bare origin followed by its slash.
IsCanonical(u) ==
  \E parsed \in {ParseURL(u)} :
    /\ parsed.ok
    /\ IndexOf(u, "#") = 0
    /\ EndsWith(u, <<"/">>) => u = Origin(parsed) \o <<"/">>

\* The URL without its fragment and without its trailing slashes.
RECURSIVE DropSlashes(_)
DropSlashes(u) ==
  IF EndsWith(u, <<"/">>) THEN Of(DropSlashes, SubSeq(u, 1, Len(u) - 1)) ELSE u

CutFragment(u, h) == IF h = 0 THEN u ELSE SubSeq(u, 1, h - 1)

Bare(u) == Of(DropSlashes, Of2(CutFragment, u, IndexOf(u, "#")))

\* C11: every URL of allLinks, those taken from the <loc> elements of a
\* sitemap included, is canonical, and no two URLs of allLinks (or of the
\* returned list) differ only by a fragment or a trailing slash.
C11_Canonical ==
  /\ \A u \in allLinks : IsCanonical(u)
  /\ \A u, v \in allLinks : Bare(u) = Bare(v) => u = v
  /\ result # NULL =>
       \A i, j \in DOMAIN result : Bare(result[i]) = Bare(result[j]) => i = j


\* ---- C12 ----
\* The step is an ingestion: one more GET in the log, and not the one of
\* robots.txt.
SitemapGet ==
  /\ Len(log') = Len(log) + 1
  /\ log'[Len(log')].op = "get"
  /\ log'[Len(log')].url # RobotsUrl(baseUrl)

\* The URLs the ingestion e obtained: the <loc> URLs in scope when the GET
\* answered, none when it failed.
IngestedBy(e) ==
  IF e.ok
    THEN UNION {SitemapUrls(m.content, baseDomain) : m \in SitemapAt(site, e.url)}
    ELSE {}

\* An ingestion adds every URL it obtained to allLinks, whatever the robots
\* policy says of it, marks nothing visited, renders nothing and starts no
\* invocation of crawlPage.
IngestionOnlyReports ==
  SitemapGet =>
    /\ allLinks' = allLinks \cup IngestedBy(log'[Len(log')])
    /\ visitedUrls' = visitedUrls
    /\ stack' = stack
    /\ browser' = browser

\* Nothing is visited or rendered before the traversal starts.
NothingVisitedBeforeTraversal ==
  pc \in {"start", "ready", "robots", "sitemaps"} =>
    /\ visitedUrls = {}
    /\ \A i \in DOMAIN log : log[i].op = "get"

\* A visited URL is the seed or a link extracted from a visited page.
VisitedThroughLinks ==
  \A u \in visitedUrls :
    u = SeedUrl \/ \E v \in visitedUrls : u \in ExtractedFrom(v)

\* C12: a sitemap's URLs go to allLinks without a robots check and are not
\* marked visited, rendered or recursed into by the ingestion; visitedUrls
\* is empty when the traversal starts, and a URL is visited only as the seed
\* or through a page link.
C12_SitemapAsymmetry ==
  /\ [][IngestionOnlyReports]_vars
  /\ [](NothingVisitedBeforeTraversal /\ VisitedThroughLinks)

\* A sitemap was ingested and the crawl has returned: one of its URLs is
\* reported though the policy disallows it, and was never visited; another
\* was visited, the traversal having reached its canonical form by a link.
C12_Witness ==
  /\ pc = "done"
  /\ \E i \in Events("get") :
       /\ \E u \in IngestedBy(log[i]) :
            Disallowed(u) /\ u \in allLinks /\ u \notin visitedUrls
       /\ \E u \in IngestedBy(log[i]) :
            /\ normalizeLink(u, baseUrl) \in visitedUrls
            /\ normalizeLink(u, baseUrl) # SeedUrl


\* ---- C13 ----
\* The GET of robots.txt failed: a network error, a timeout, or a status
\* that is not 2xx (the site has no robots.txt).
RobotsFailed ==
  \E i \in Events("get") : log[i].url = RobotsUrl(baseUrl) /\ ~log[i].ok

\* The policy the site's robots.txt would have given.
PolicyOfSite == robotsParser(RobotsUrl(baseUrl), site.robots)

\* After the failure the policy is empty: no policy object, no sitemap
\* kept or fetched, no URL refused; and crawl() fails of nothing but the
\* close of the browser.
EmptyPolicy ==
  RobotsFailed =>
    /\ robotsTxt = NoRobots
    /\ sitemapLinks = <<>>
    /\ \A i \in Events("get") : log[i].url = RobotsUrl(baseUrl)
    /\ \A u \in allLinks : ~RobotsRefuses(u)
    /\ pc = "error" => CloseRejected

\* C13: a failed fetch of robots.txt leaves the crawl with an empty policy
\* (nothing refused, no sitemap ingested) and the crawl goes on: the seed is
\* visited and crawl() comes to its end.
C13_RobotsFailureNonFatal ==
  /\ []EmptyPolicy
  /\ RobotsFailed ~> (SeedUrl \in visitedUrls)
  /\ RobotsFailed ~> (pc = "done" \/ CloseRejected)

\* The GET of a robots.txt the site has failed, and the crawl returned
\* having visited a page that robots.txt disallows.
C13_Witness ==
  /\ pc = "done"
  /\ site.hasRobots
  /\ RobotsFailed
  /\ \E u \in visitedUrls : ~isAllowed(PolicyOfSite, u)


\* ---- C14 ----
\* crawl() is over: it returned, or rejected with the close of the browser.
CrawlOver == pc = "done" \/ CloseRejected

\* The in-scope links extracted from the seed's page, none when its render
\* failed.
ExtractedLinksOfSeed == IF Evaluated(SeedUrl) THEN KeptLinks(SeedUrl) ELSE {}

\* What a crawl of depth 0 leaves: the seed alone visited, no call of the
\* renderer for another URL, and allLinks the seed with the in-scope links
\* extracted from its page.
SeedOnly ==
  /\ visitedUrls = {SeedUrl}
  /\ \A i \in DOMAIN log :
       log[i].op \in {"visit"} \cup RenderOps => log[i].url = SeedUrl
  /\ allLinks = {SeedUrl} \cup ExtractedLinksOfSeed

\* The statement for any seed.
C14_ZeroDepthAnySeed ==
  (maxDepth = 0 /\ CrawlOver) => SeedOnly

\* C14: with maxDepth = 0 and a seed the robots policy does not refuse,
\* after the crawl visitedUrls holds the canonical seed alone, no link of
\* the seed's page was rendered, and allLinks holds the seed and every
\* in-scope link extracted from the seed's page.
C14_ZeroDepth ==
  (maxDepth = 0 /\ CrawlOver /\ ~RobotsRefuses(SeedUrl)) => SeedOnly

\* A crawl of depth 0 returned with links of the seed's page reported and
\* not visited.
C14_Witness ==
  /\ maxDepth = 0
  /\ pc = "done"
  /\ Evaluated(SeedUrl)
  /\ visitedUrls = {SeedUrl}
  /\ \E l \in KeptLinks(SeedUrl) : l # SeedUrl /\ l \in allLinks


\* ---- C15 ----
\* C15: when normalizeLink(href, base) returned a URL c, normalizeLink(c,
\* base) returns c.
C15_Idempotent ==
  call.at = "again" => call.again = call.out

\* ---- C16 ----
\* The text is an absolute http or https URL.
IsHttpUrl(u) == \E parsed \in {ParseURL(u)} : parsed.ok /\ IsHttp(parsed)

\* C16: two URLs that differ only by a fragment or by a trailing slash are
\* given the same value by normalizeLink.
C16_Equivalence ==
  (call.at = "variant" /\ IsHttpUrl(call.href)) => call.again = call.out

\* ---- C17 ----
\* The raw hrefs to reject: empty or white space only, of the types
\* javascript:, mailto:, tel: and data:, a fragment reference, or a text
\* that new URL cannot resolve against the base.
OnlyWhiteSpace(href) == \A i \in DOMAIN href : href[i] = " "

OfSkippedType(href) ==
  Len(href) >= 2 /\ href[1] \in {"javascript", "mailto", "tel", "data"} /\ href[2] = ":"

FragmentOnly(href) == href # <<>> /\ href[1] = "#"

Malformed(href, base) == ~Of2(ResolveURL, href, ParseURL(base)).ok

Rejectable(href, base) ==
  \/ OnlyWhiteSpace(href)
  \/ OfSkippedType(href)
  \/ FragmentOnly(href)
  \/ Malformed(href, base)

\* The URL of the page at base, as a link of the page to itself is reported.
PageItself(base) == normalizeLink(base, base)

\* C17: normalizeLink returns null for an href that is empty or white space,
\* begins with javascript:, mailto:, tel: or data:, is a fragment reference,
\* or is malformed; and a candidate it rejects enters neither allLinks (from
\* the loop over a page's links) nor visitedUrls (from crawlPage).
C17_Rejection ==
  /\ (call.at \notin {"none", "called"} /\ Rejectable(call.href, call.base))
       => call.out = NULL
  /\ (call.at = "looped" /\ call.out = NULL)
       => call.href \notin allLinks /\ allLinks \subseteq {PageItself(call.base)}
  /\ (call.at = "visited" /\ normalizeLink(call.href, baseUrl) = NULL)
       => visitedUrls = {} /\ allLinks = {} /\ stack = <<>>

\* The loop has processed a page whose candidate is an absolute URL with a
\* host that cannot be parsed: normalizeLink rejected it, nothing was added.
C17_Witness ==
  /\ call.at = "looped"
  /\ ParseURL(call.base).ok
  /\ StartsWith(call.href, <<"https", ":", "/", "/">>)
  /\ Malformed(call.href, call.base)
  /\ call.out = NULL
  /\ allLinks = {}

\* ---- C18 ----
\* C18: the array crawl() returns holds exactly the URLs of allLinks at the
\* end of the crawl, each once, in ascending order of their text.
C18_SortedResult ==
  pc = "done" =>
    /\ Range(result) = allLinks
    /\ Len(result) = Cardinality(allLinks)
    /\ \A i, j \in DOMAIN result : i < j => StrLess(result[i], result[j])

\* A crawl returned four links or more, a visited page and a link that was
\* only reported among them.
C18_Witness ==
  /\ pc = "done"
  /\ Len(result) >= 4
  /\ \E i, j \in DOMAIN result :
       result[i] \in visitedUrls /\ result[j] \notin visitedUrls

\* ---- C20 ----
\* No step takes a URL out of visitedUrls or of allLinks.
OnlyGrow == visitedUrls \subseteq visitedUrls' /\ allLinks \subseteq allLinks'

\* C20: visitedUrls is a subset of allLinks in every state, and no step of
\* the discovery or of the traversal removes a URL from either set.
C20_VisitedReported ==
  /\ [](visitedUrls \subseteq allLinks)
  /\ [][OnlyGrow]_vars

\* In the middle of a traversal: pages visited, links reported and not
\* visited, and a sitemap ingested before.
C20_Witness ==
  /\ pc = "pages"
  /\ Cardinality(visitedUrls) >= 2
  /\ allLinks \ visitedUrls # {}
  /\ \E i \in Events("get") : log[i].ok /\ IngestedBy(log[i]) # {}

\* ---- C19 ----
\* The url of the request is missing, is no string, or is empty or white
\* space only.
BadRequest ==
  \/ req.kind \in {"undefined", "null"}
  \/ req.kind # "string"
  \/ OnlyWhiteSpace(req.text)

Answered == res # NoResponse

\* No crawl was started: no crawler was built, nothing fetched or rendered.
NoCrawl == pc = "idle" /\ seed = NULL /\ baseUrl = NULL /\ log = <<>>

\* The answers by class: 400 for a bad request, and none of it crawled; 500
\* with the message when crawlWebsite rejected; else the links, with their
\* number.
Classified ==
  /\ BadRequest => NoCrawl /\ (Answered => res.status = 400 /\ ~res.success)
  /\ (Answered /\ res.status = 400) => BadRequest
  /\ (Answered /\ pc = "error") =>
       /\ res.status = 500
       /\ ~res.success
       /\ res.message = ErrorMessage
       /\ res.message # NULL
  /\ (Answered /\ res.status = 500) => pc = "error"
  /\ (Answered /\ pc = "done") =>
       /\ res.status = 200
       /\ res.success
       /\ res.links = result
       /\ res.totalLinks = Len(res.links)

\* C19: a request whose url is missing, not a string, or empty or white
\* space only is answered with status 400 and starts no crawl; an exception
\* of the crawl is answered with status 500 and its message; a crawl that
\* returned is answered with success = true and totalLinks = links.length.
\* Every request is answered.
C19_ErrorClasses ==
  /\ []Classified
  /\ <>Answered

\* The crawl visited pages and rejected when the browser was closed: the
\* request was answered with status 500 and the message of that error.
C19_Witness ==
  /\ Answered
  /\ res.status = 500
  /\ CloseRejected
  /\ visitedUrls # {}
  /\ res.message = ErrorMessage

\* ---- C21 ----
\* The URLs whose invocation of crawlPage is in progress.
OnStack == {stack[k].url : k \in DOMAIN stack}

\* The invocation that visited u has returned: its page was closed, or the
\* outer catch caught a failure before the page was opened and set up.
Completed(u) ==
  \E i \in DOMAIN log :
    /\ log[i].url = u
    /\ \/ log[i].op = "pageClose"
       \/ log[i].op \in {"launch", "newPage", "setup"} /\ ~log[i].ok

\* The link that the invocation at place k of the stack took last.
LastLinkOf(k) ==
  OrLink(normalizeLink(stack[k].links[stack[k].i - 1], stack[k].url),
         stack[k].links[stack[k].i - 1])

\* Each invocation in progress but the outermost was started by the link
\* its caller took last, and the caller waits in its loop; every other
\* visit is over.
DepthFirst ==
  /\ \A k \in 1..(Len(stack) - 1) :
       /\ stack[k].at = "links"
       /\ stack[k].i >= 2
       /\ stack[k].i - 1 <= Len(stack[k].links)
       /\ stack[k + 1].url = normalizeLink(LastLinkOf(k), baseUrl)
       /\ stack[k + 1].depth = stack[k].depth + 1
  /\ \A u \in visitedUrls : u \in OnStack \/ Completed(u)
  /\ \A u \in OnStack : ~Completed(u)

\* A step of the traversal that reports or visits a URL is a turn of the
\* loop of the innermost invocation, for the link that follows the one it
\* took last, in the order of the extractor; every visit started by an
\* earlier link of any invocation in progress is over then.
NextSiblingAfterReturn ==
  (pc = "pages" /\ (allLinks' # allLinks \/ visitedUrls' # visitedUrls)) =>
    /\ AtLink
    /\ Top.links = ExtractLinks(PageAt(site, Top.url).hrefs, Top.base, <<>>)
    /\ allLinks' \ allLinks \subseteq {PendingLink, normalizeLink(PendingLink, baseUrl)}
    /\ visitedUrls' \ visitedUrls \subseteq {normalizeLink(PendingLink, baseUrl)}
    /\ Len(stack') >= Len(stack)
    /\ stack'[Len(stack)] = [Top EXCEPT !.i = @ + 1]
    /\ \A u \in visitedUrls \ OnStack : Completed(u)

\* C21: the links of a page are taken in the order the extractor returned
\* them, and the visit started by a link, with every visit started from it,
\* is over before the next link of the page is reported or visited.
C21_DepthFirstOrder ==
  /\ []DepthFirst
  /\ [][NextSiblingAfterReturn]_vars

\* Two invocations are in progress, the outer one at its third link or
\* later, and a page visited from an earlier link of it is closed.
C21_Witness ==
  /\ pc = "pages"
  /\ Len(stack) = 2
  /\ stack[1].i >= 3
  /\ \E u \in visitedUrls \ OnStack :
       /\ Completed(u)
       /\ \E j \in 1..(stack[1].i - 2) :
            normalizeLink(OrLink(normalizeLink(stack[1].links[j], stack[1].url),
                                 stack[1].links[j]), baseUrl) = u

\* ---- C22 ----
\* The calls of the renderer for a page, and the close of the page.
PageOps == RenderOps \cup {"pageClose"}

\* The awaits of collaborator calls that have not settled: one for each
\* invocation of crawlPage that is not waiting for a recursive call in its
\* loop, and the fetches and the browser.close() of crawl().
Outstanding ==
  Cardinality({k \in DOMAIN stack : stack[k].at # "links"})
    + (IF pc \in {"robots", "closing"} THEN 1 ELSE 0)
    + (IF pc = "sitemaps" /\ sitemapIdx <= Len(sitemapLinks) THEN 1 ELSE 0)

\* The order of the calls in the log: robots.txt is fetched first, every
\* fetch comes before every call of the renderer, and browser.close() comes
\* last; a page is rendered only while the traversal runs.
PhaseOrder ==
  /\ \A i \in Events("get") : log[i].url = RobotsUrl(baseUrl) => i = 1
  /\ \A i, j \in DOMAIN log :
       (log[i].op \in PageOps \cup {"visit"} /\ log[j].op = "get") => j < i
  /\ \A i \in Events("browserClose") : i = Len(log)
  /\ pc \in {"start", "ready", "robots", "sitemaps"} =>
       \A i \in DOMAIN log : log[i].op = "get"
  /\ pc # "pages" => stack = <<>>

\* C22: in a crawl the fetch of robots.txt comes before any fetch of a
\* sitemap, the fetches come before the first render, browser.close() comes
\* after the last render, and at most one call is outstanding at any time.
C22_PhaseOrder == PhaseOrder /\ Outstanding <= 1

\* The crawl returned after it fetched robots.txt, rendered three pages or
\* more and closed the browser.
C22_Witness ==
  /\ pc = "done"
  /\ Events("get") # {}
  /\ Cardinality(Events("goto")) >= 3
  /\ Events("browserClose") # {}

\* ---- C23 ----
\* C23: whatever the links of the site (cycles and links of a page to
\* itself included), the robots policy and the calls that fail, a crawl
\* whose awaits all settle comes to its end, and crawl() returns when it has
\* started and browser.close() does not reject.
C23_Termination ==
  /\ <>(pc \in {"done", "error"})
  /\ [](pc = "robots" => <>(pc = "done" \/ CloseRejected))

\* A crawl of depth two returned from the site whose pages link back to
\* the seed and to each other, calls of the renderer having failed.
C23_Witness ==
  /\ pc = "done"
  /\ site = SiteDiamond
  /\ maxDepth = 2
  /\ faults = MaxFaults
  /\ FailedRenders # {}
  /\ \E u \in visitedUrls : SeedUrl \in LinkedFrom(u)

(***************************************************************************)
(* crawlPage called by a client twice on one crawler, the two invocations  *)
(* running side by side: each runs from its call to its first await        *)
(* without interruption, and then from one await to the next.              *)
(***************************************************************************)
Tasks == {1, 2}

\* The url arguments: three spellings of one page, and another page.
RaceUrls ==
  {Ex \o <<"/", "a">>, Ex \o <<"/", "a", "/">>, <<"/", "a", "#", "frag">>,
   Ex \o <<"/", "b">>}

\* A crawler built for ex.com with maxDepth 0; neither invocation is called
\* yet.
RaceInit ==
  /\ seed = <<"ex.com">>
  /\ site \in Sites
  /\ maxDepth = 0
  /\ pc = "ready"
  /\ baseUrl = normalizeUrl(<<"ex.com">>)
  /\ baseDomain = getDomain(normalizeUrl(<<"ex.com">>))
  /\ visitedUrls = {}
  /\ allLinks = {}
  /\ robotsTxt = NoRobots
  /\ sitemapLinks = <<>>
  /\ browser = 0
  /\ sitemapIdx = 1
  /\ stack = <<>>
  /\ result = <<>>
  /\ log = <<>>
  /\ faults = 0
  /\ call = NoCall
  /\ req = NoRequest
  /\ res = NoResponse
  /\ earlier = NoEarlier
  /\ tasks \in [Tasks -> {[Frame(u, 0) EXCEPT !.at = "called"] : u \in RaceUrls}]

\* A crawlPage that does not mark the URL visited at line 168.
MarkVisitedSkipped(normalizedUrl) == visitedUrls

\* this.visitedUrls.add(normalizedUrl)
MarkVisited(normalizedUrl) == visitedUrls \cup {normalizedUrl}

\* crawlPage(url, 0) is called and runs to its first await (lines 150-175):
\* it returns at once (target is NULL), or marks the URL visited, reports
\* it, and awaits the launch of the browser or browser.newPage().
RaceCall(t) ==
  /\ tasks[t].at = "called"
  /\ \E target \in {CrawlPageTarget(tasks[t].url, 0)} :
       IF target = NULL
         THEN /\ tasks' = [tasks EXCEPT ![t].at = "noop"]
              /\ UNCHANGED <<visitedUrls, allLinks, log>>
         ELSE /\ visitedUrls' = MarkVisited(target)
              /\ allLinks' = allLinks \cup {target}
              /\ log' = Append(log, Event("visit", target, TRUE))
              /\ tasks' = [tasks EXCEPT ![t] = Frame(target, 0)]
  /\ UNCHANGED <<earlier, req, res, call, seed, site, pc, baseUrl, baseDomain, maxDepth,
                 robotsTxt, sitemapLinks, browser, sitemapIdx, stack, result,
                 faults>>

\* Where an invocation stands after the call it awaited at `at` resolved.
AfterResolved(frame) ==
  IF frame.at = "launch" THEN [frame EXCEPT !.at = "newPage"]
  ELSE IF frame.at = "newPage" THEN [frame EXCEPT !.at = "setup"]
  ELSE IF frame.at = "setup" THEN [frame EXCEPT !.at = "goto"]
  ELSE IF frame.at = "goto"
    THEN Of2(AfterGoto, <<frame>>, CurrentPageUrl(site, frame.url))[1]
  ELSE IF frame.at = "evaluate" THEN [frame EXCEPT !.at = "close"]
  ELSE [frame EXCEPT !.at = "returned"]

\* Where it stands after the call rejected: the outer catch ends the
\* invocation, the inner one (lines 382-386) goes on to page.close().
AfterRejected(frame) ==
  IF frame.at \in {"goto", "evaluate"} THEN Caught(<<frame>>)[1]
  ELSE [frame EXCEPT !.at = "returned"]

\* The links the loop of lines 358-380 adds at the depth limit, when
\* page.evaluate resolved for the page of frame.
LinksOfLoop(frame) ==
  {l \in {OrLink(normalizeLink(x, frame.url), x) :
            x \in Range(ExtractLinks(PageAt(site, frame.url).hrefs, frame.base, <<>>))} :
     KeepLink(l)}

\* The call an invocation awaits settles, and the invocation runs to its
\* next await or to its end.
RaceAwait(t) ==
  /\ tasks[t].at \in RenderOps \cup {"close"}
  /\ \E ok \in BOOLEAN :
       /\ ~ok => MayFail
       /\ faults' = IF ok THEN faults ELSE faults + 1
       /\ log' = Append(log, Event(IF tasks[t].at = "close" THEN "pageClose"
                                   ELSE tasks[t].at, tasks[t].url, ok))
       /\ tasks' = [tasks EXCEPT ![t] = IF ok THEN AfterResolved(tasks[t])
                                        ELSE AfterRejected(tasks[t])]
       /\ browser' = IF ok /\ tasks[t].at = "launch"
                       THEN Cardinality({i \in Events("launch") : log[i].ok}) + 1
                       ELSE browser
       /\ allLinks' = IF ok /\ tasks[t].at = "evaluate"
                        THEN allLinks \cup LinksOfLoop(tasks[t])
                        ELSE allLinks
  /\ UNCHANGED <<earlier, req, res, call, seed, site, pc, baseUrl, baseDomain, maxDepth,
                 visitedUrls, robotsTxt, sitemapLinks, sitemapIdx, stack, result>>

RaceNext == \E t \in Tasks : RaceCall(t) \/ RaceAwait(t)

RaceSpec == RaceInit /\ [][RaceNext]_vars

\* ---- C24 ----
\* The URL an invocation is about, canonical.
UrlOf(t) ==
  IF tasks[t].at \in {"called", "noop"} THEN normalizeLink(tasks[t].url, baseUrl)
  ELSE tasks[t].url

\* The invocation returned at once, as a no-op.
NoOp(t) == tasks[t].at = "noop"

\* The invocation has been called.
Called(t) == tasks[t].at # "called"

\* C24: of two invocations of crawlPage for the same URL that run side by
\* side on one crawler, exactly one marks the URL visited and renders it and
\* the other returns as a no-op: the URL is marked and loaded once.
C24_AtomicInsert ==
  /\ \A t, u \in Tasks :
       (t # u /\ Called(t) /\ Called(u) /\ UrlOf(t) = UrlOf(u)) => NoOp(t) # NoOp(u)
  /\ OncePerUrl("visit")
  /\ OncePerUrl("goto")
  /\ \A t \in Tasks : (Called(t) /\ ~NoOp(t)) => UrlOf(t) \in visitedUrls

\* Two invocations for two spellings of one URL: the second was called
\* while the first awaited the load of the page, and returned at once.
C24_Witness ==
  \E t, u \in Tasks :
    /\ t # u
    /\ tasks[t].at = "goto"
    /\ NoOp(u)
    /\ tasks[u].url # tasks[t].url
    /\ UrlOf(u) = UrlOf(t)

(***************************************************************************)
(* crawlWebsite(url) called a second time, for the same site whose pages   *)
(* now carry their links in another order.                                 *)
(***************************************************************************)
RECURSIVE Reverse(_)
Reverse(s) == IF s = <<>> THEN <<>> ELSE Of(Reverse, Tail(s)) \o <<s[1]>>

\* The site with the candidates of every page in reverse document order.
Reordered(s) ==
  [s EXCEPT !.pages = {[p EXCEPT !.hrefs = Reverse(p.hrefs)] : p \in s.pages}]

\* The first crawlWebsite returned; what it found is kept, and
\* crawlWebsite(url) is entered again: a new crawler, a new browser.
CrawlAgain ==
  /\ pc = "done"
  /\ ~earlier.made
  /\ earlier' = [made |-> TRUE, allLinks |-> allLinks, visitedUrls |-> visitedUrls]
  /\ site' = Reordered(site)
  /\ pc' = "start"
  /\ baseUrl' = NULL
  /\ baseDomain' = ""
  /\ visitedUrls' = {}
  /\ allLinks' = {}
  /\ robotsTxt' = NoRobots
  /\ sitemapLinks' = <<>>
  /\ browser' = 0
  /\ sitemapIdx' = 1
  /\ stack' = <<>>
  /\ result' = <<>>
  /\ log' = <<>>
  /\ UNCHANGED <<seed, maxDepth, faults, call, req, res, tasks>>

AgainNext == Next \/ CrawlAgain

AgainSpec == Init /\ [][AgainNext]_vars

\* ---- C25 ----
\* C25: two crawls of one site with the same seed and maxDepth, in which no
\* call failed, report the same URLs and visit the same URLs whatever the
\* order of the links on the pages.
C25_OrderInsensitive ==
  (pc = "done" /\ earlier.made /\ faults = 0) =>
    /\ allLinks = earlier.allLinks
    /\ visitedUrls = earlier.visitedUrls

\* ---- C26 ----
\* The pages browser.newPage() handed out, and the calls of page.close().
Opened == {k \in DOMAIN log : log[k].op = "newPage" /\ log[k].ok}

CloseCalls == {k \in DOMAIN log : log[k].op = "pageClose"}

\* The calls of page.close() on the page opened for the URL of event k.
ClosesOf(k) == {j \in CloseCalls : j > k /\ log[j].url = log[k].url}

OpenNow == Cardinality(Opened) - Cardinality(CloseCalls)

\* C26: every page opened with newPage is closed exactly once, at most
\* maxDepth + 1 pages are open at a time, and no page is open when crawl()
\* closes the browser and returns.
C26_PageLifecycle ==
  /\ OpenNow <= maxDepth + 1
  /\ \A k \in Opened : Cardinality(ClosesOf(k)) <= 1
  /\ pc \in {"closing", "done", "error"} =>
       \A k \in Opened : Cardinality(ClosesOf(k)) = 1

\* ---- C27 ----
\* The pages whose links were extracted and whose loop over them is over.
LoopedPages ==
  {u \in visitedUrls : Evaluated(u) /\ \E i \in Events("pageClose") : log[i].url = u}

\* Every in-scope link of such a page is reported, and one that robots.txt
\* disallows is not visited.
ReportedNotVisited ==
  \A u \in LoopedPages : \A l \in KeptLinks(u) :
    /\ l \in allLinks
    /\ Disallowed(l) => l \notin visitedUrls
    /\ pc = "done" => l \in Range(result)

\* With a seed that robots.txt disallows nothing is visited or rendered and
\* nothing is reported.
DisallowedSeedIsBarren ==
  (baseUrl # NULL /\ Disallowed(SeedUrl)) =>
    /\ visitedUrls = {}
    /\ \A i \in DOMAIN log : log[i].op \notin {"visit", "pageClose"} \cup RenderOps
    /\ allLinks = {}

\* C27: robots.txt gates the visit of a URL, not its report: the in-scope
\* links extracted from a rendered page are in allLinks, and in the returned
\* list, disallowed or not, and a disallowed one is never in visitedUrls;
\* with a disallowed seed nothing is rendered and no link is reported.
C27_RobotsGatesVisitOnly == ReportedNotVisited /\ DisallowedSeedIsBarren

\* The crawl returned a list holding a disallowed URL that a visited page
\* other than the seed's links to.
C27_Witness ==
  /\ pc = "done"
  /\ \E u \in LoopedPages \ {SeedUrl} : \E l \in KeptLinks(u) :
       Disallowed(l) /\ l \in Range(result) /\ l \notin visitedUrls

====
